---- MODULE Spec2Model ----
(***************************************************************************)
(* Resource graph and dirty-tracking persistence engine of reticulator.   *)
(*                                                                         *)
(* The engine is src/reticulator/core.py (Resource, FileResource,          *)
(* JsonResource, JsonSubResource, JsonFileResource and the generated       *)
(* accessors); the Pack is src/reticulator/reticulator.py.                 *)
(*                                                                         *)
(* JSON values live in a heap of dict objects, because core.py keeps the   *)
(* parsed document as plain Python dicts and hands the SAME dict object    *)
(* to a sub-resource (SubResourceDefinition) and back to the parent        *)
(* (JsonSubResource._save): the data of a sub-resource and the entry of    *)
(* its parent are aliases until one of them is replaced.                   *)
(***************************************************************************)
EXTENDS Integers, Sequences, FiniteSets, TLC

\* ------------------------------------------------------------------ bounds

\* Number of API calls explored from the initial state.
MaxSteps == 3
MaxRenameSteps == 4

\* ------------------------------------------------------------- JSON values

\* A value is a tagged pair: <<"s", n>> a scalar, <<"r", o>> a reference to
\* the dict object o of the heap.  NotFound is what a failed lookup gives.
Scalar(n) == <<"s", n>>
Ref(o) == <<"r", o>>
NotFound == <<"x", 0>>
None == <<"n", 0>>
Bool(b) == <<"b", IF b THEN 1 ELSE 0>>
\* The sentinel that stands for "no default given".
NO_ARGUMENT == <<"no_argument", 0>>
EmptyDictLeaf == <<"d", 0>>
IsRef(v) == v[1] = "r"
\* A JSON array is the tuple of its elements; no call changes one in place.
List(elems) == <<"l", elems>>
IsList(v) == v[1] = "l"

Range(s) == {s[i] : i \in DOMAIN s}

\* A dict is a sequence of <<key, value>> pairs in insertion order.
Has(d, k) == \E i \in DOMAIN d : d[i][1] = k
IndexOf(d, k) == CHOOSE i \in DOMAIN d : d[i][1] = k
Lookup(d, k) == d[IndexOf(d, k)][2]
DictSet(d, k, v) ==
    IF Has(d, k) THEN [d EXCEPT ![IndexOf(d, k)] = <<k, v>>]
    ELSE Append(d, <<k, v>>)
DictDel(d, k) == SelectSeq(d, LAMBDA e : e[1] # k)

\* dpath.get(obj, path): walk the path from value v; NotFound when a segment
\* is missing or the walk meets a scalar.
RECURSIVE dpath_get(_, _, _)
dpath_get(h, v, p) ==
    IF p = <<>> THEN v
    ELSE IF ~IsRef(v) THEN NotFound
    ELSE IF ~Has(h[v[2]], Head(p)) THEN NotFound
    ELSE dpath_get(h, Lookup(h[v[2]], Head(p)), Tail(p))

\* dpath.new(obj, path, value): walk from dict object o, create a fresh dict
\* for every missing intermediate segment, then store v under the last one.
\* (Inputs never route through an existing scalar, where dpath raises.)
RECURSIVE dpath_new(_, _, _, _)
dpath_new(h, o, p, v) ==
    LET k == Head(p) IN
    IF Len(p) = 1 THEN [h EXCEPT ![o] = DictSet(@, k, v)]
    ELSE IF Has(h[o], k) /\ IsRef(Lookup(h[o], k))
         THEN dpath_new(h, Lookup(h[o], k)[2], Tail(p), v)
    ELSE LET n == Len(h) + 1
         IN dpath_new(Append([h EXCEPT ![o] = DictSet(@, k, Ref(n))], <<>>),
                      n, Tail(p), v)

\* dpath.delete(obj, path) on a path that exists: drop the last segment's key
\* from the dict that holds it.
RECURSIVE dpath_delete(_, _, _)
dpath_delete(h, o, p) ==
    IF Len(p) = 1 THEN [h EXCEPT ![o] = DictDel(@, Head(p))]
    ELSE dpath_delete(h, Lookup(h[o], Head(p))[2], Tail(p))

\* json.dump: the document a value serialises to, as the set of its
\* <<path, leaf>> pairs (a leaf is a scalar or an empty dict).  Two documents
\* are equal exactly when they hold the same keys and values.
RECURSIVE json_dump(_, _)
json_dump(h, v) ==
    IF ~IsRef(v) THEN {<<<<>>, v>>}
    ELSE IF h[v[2]] = <<>> THEN {<<<<>>, EmptyDictLeaf>>}
    ELSE UNION {{<<<<e[1]>> \o q[1], q[2]>> : q \in json_dump(h, e[2])} :
                e \in Range(h[v[2]])}

IsPrefix(p, q) == Len(p) <= Len(q) /\ SubSeq(q, 1, Len(p)) = p

\* The part of a serialised document below path p, and whether it has any.
SubDoc(doc, p) ==
    {<<SubSeq(e[1], Len(p) + 1, Len(e[1])), e[2]>> : e \in {x \in doc : IsPrefix(p, x[1])}}
HasEntry(doc, p) == \E e \in doc : IsPrefix(p, e[1])


\* ------------------------------------------------------- the program state

VARIABLES
    kind,                \* per resource: "file", "group" or "component" (its class)
    pack,                \* Resource.pack: 1 the pack, 0 None (a floating asset)
    parent,              \* JsonSubResource.parent (0 for a file)
    dirty,               \* Resource._dirty
    deleted,             \* Resource._deleted
    resources,           \* Resource._resources, the registered children, in order
    data,                \* JsonResource._data
    json_path,           \* JsonSubResource._json_path
    original_json_path,  \* JsonSubResource._original_json_path
    cache,               \* the cached_property list of the collection accessor
    filepath,            \* FileResource.filepath
    heap,                \* the dict objects
    fs,                  \* the filesystem: root -> file path -> document
    pack_resources,      \* Pack.resources
    pack_cache,          \* the cached_property list of the pack's file collection
    output_directory,    \* the pack's output root
    notify,              \* the Notify Containers the caller holds
    project,             \* the Project: its two memoized packs
    lang,                \* a LanguageFile of the pack, and its file on disk
    last,                \* the last API call: what was called and what it did
    steps                \* number of API calls made

vars == <<kind, pack, parent, dirty, deleted, resources, data, json_path,
          original_json_path, cache, filepath, heap, fs, pack_resources,
          pack_cache, output_directory, notify, project, lang, last, steps>>

\* The pack's input root (Pack.input_path) and the other root a caller may
\* choose as output.
input_path == "in"
Roots == {"in", "out"}
FilePaths == {"entities/f1.json", "entities/f2.json", "entities/f3.json"}

NoFile == [exists |-> FALSE, doc |-> {}]
FileOf(doc) == [exists |-> TRUE, doc |-> doc]

\* type_info of the three classes: the jsonpath of the collection a resource
\* of this class exposes and the class of its elements.
HasChildKind(k) == k \in {"file", "group"}
ChildKind(k) == IF k = "file" THEN "group" ELSE "component"
ChildJsonpath(k) == IF k = "file" THEN <<"groups">> ELSE <<"components">>

Unset == [set |-> FALSE, list |-> <<>>]

\* No language file is in play.
NoLanguageFile == [dirty |-> FALSE, cached |-> FALSE, translations |-> <<>>, file |-> <<>>]

\* The two packs of a Project.  The behavior pack is the pack whose
\* registered resources are pack_resources (pack 1); the resource pack is
\* pack 2, whose registered resources the project record holds.
behavior_pack == 1
resource_pack == 2
Packs == {behavior_pack, resource_pack}

\* Project.__init__: both private pack attributes are None (attr FALSE), no
\* cached_property is computed (cached FALSE, which each access sets), no
\* pack was constructed (built counts the constructions).
NoProject ==
    [attr |-> [pk \in Packs |-> FALSE], cached |-> [pk \in Packs |-> FALSE],
     built |-> [pk \in Packs |-> 0], resources |-> <<>>]

\* The whole mutable state as one record, threaded through the operations.
Cur ==
    [kind |-> kind, pack |-> pack, parent |-> parent, dirty |-> dirty,
     deleted |-> deleted, resources |-> resources, data |-> data,
     json_path |-> json_path, original_json_path |-> original_json_path,
     cache |-> cache, filepath |-> filepath, heap |-> heap, fs |-> fs,
     pack_resources |-> pack_resources, pack_cache |-> pack_cache,
     output_directory |-> output_directory, notify |-> notify,
     project |-> project, lang |-> lang,
     raised |-> "none", log |-> <<>>, ret |-> 0, val |-> NotFound, lst |-> <<>>]

Res(S) == DOMAIN S.kind
Raise(S, e) == [S EXCEPT !.raised = e]
Log(S, e) == [S EXCEPT !.log = Append(@, e)]

\* ------------------------------------------------------------ dirty flag

\* The dirty setter.  For a sub-resource it stores the value and assigns it
\* to parent.dirty, which travels up the chain; for a file it stores it.
set_dirty_own(S, r, val) == [S EXCEPT !.dirty[r] = val]
RECURSIVE set_dirty(_, _, _)
set_dirty(S, r, val) ==
    IF S.kind[r] = "file" THEN [S EXCEPT !.dirty[r] = val]
    ELSE set_dirty([S EXCEPT !.dirty[r] = val], S.parent[r], val)

\* ------------------------------------------------------ Notify Containers

\* A Notify Container: its class, its owner (0 for None) and its items - of
\* a NotifyDict the <<key, value>> pairs, of a NotifyList the elements.
NotifyDict(items, owner) == [cls |-> "dict", owner |-> owner, items |-> items]
NotifyList(items, owner) == [cls |-> "list", owner |-> owner, items |-> items]

\* A value held by a container or given to it is a scalar, None, raw data -
\* a plain dict RawDict(<<key, value>> pairs) or a plain list List(elements) -
\* or a reference to a Notify Container, the position of it in notify.
RawDict(items) == <<"d", items>>
Nested(k) == <<"c", k>>
IsRaw(v) == v[1] \in {"d", "l"}

\* convert_to_notify_structure: a dict or a list becomes a new NotifyDict or
\* NotifyList of the given owner, whose constructor converts every value it
\* is given in the same way; anything else is returned as it is.  The
\* result is the state with the new containers and the converted value.
RECURSIVE convert_to_notify_structure(_, _, _), convert_items(_, _, _, _, _)
convert_to_notify_structure(S, value, owner) ==
    IF IsRaw(value)
    THEN LET R == convert_items(S, value[1], value[2], owner, 1)
             new == IF value[1] = "d" THEN NotifyDict(R.items, owner)
                    ELSE NotifyList(R.items, owner)
         IN [S |-> [R.S EXCEPT !.notify = Append(@, new)],
             value |-> Nested(Len(R.S.notify) + 1)]
    ELSE [S |-> S, value |-> value]
convert_items(S, tag, items, owner, i) ==
    IF i > Len(items) THEN [S |-> S, items |-> items]
    ELSE LET R == convert_to_notify_structure(
                      S, IF tag = "d" THEN items[i][2] ELSE items[i], owner)
         IN convert_items(R.S, tag,
                          [items EXCEPT ![i] = IF tag = "d" THEN <<items[i][1], R.value>>
                                               ELSE R.value],
                          owner, i + 1)

\* What == compares: a container, Notify or plain, by its contents.
RECURSIVE Contents(_, _)
Contents(nfy, v) ==
    IF v[1] = "c"
    THEN LET c == nfy[v[2]]
         IN IF c.cls = "dict"
            THEN <<"d", [i \in DOMAIN c.items |->
                            <<c.items[i][1], Contents(nfy, c.items[i][2])>>]>>
            ELSE <<"l", [i \in DOMAIN c.items |-> Contents(nfy, c.items[i])]>>
    ELSE IF v[1] = "d"
    THEN <<"d", [i \in DOMAIN v[2] |-> <<v[2][i][1], Contents(nfy, v[2][i][2])>>]>>
    ELSE IF v[1] = "l"
    THEN <<"l", [i \in DOMAIN v[2] |-> Contents(nfy, v[2][i])]>>
    ELSE v

\* if self._owner != None: self._owner.dirty = True
owner_dirty(S, c) ==
    IF S.notify[c].owner # 0 THEN set_dirty(S, S.notify[c].owner, TRUE) ELSE S

\* NotifyDict.get_item: the value, or None when the lookup raises.
get_item(S, c, attr) ==
    IF Has(S.notify[c].items, attr) THEN Lookup(S.notify[c].items, attr) ELSE None

\* A __setitem__ that notifies on every assignment.
NotifyDict_setitem_always(S, c, attr, value) ==
    [owner_dirty(S, c) EXCEPT !.notify[c].items = DictSet(@, attr, value)]

\* NotifyDict.__setitem__: convert the value, notify when the stored value
\* differs from it, then store it.
NotifyDict_setitem(S, c, attr, value) ==
    LET R == convert_to_notify_structure(S, value, S.notify[c].owner)
        S1 == IF Contents(R.S.notify, get_item(S, c, attr)) # Contents(R.S.notify, R.value)
              THEN owner_dirty(R.S, c) ELSE R.S
    IN [S1 EXCEPT !.notify[c].items = DictSet(@, attr, R.value)]

\* NotifyDict.__delitem__: notify, then delete (KeyError when missing).
NotifyDict_delitem(S, c, v) ==
    LET S1 == owner_dirty(S, c)
    IN IF ~Has(S.notify[c].items, v) THEN Raise(S1, "KeyError")
       ELSE [S1 EXCEPT !.notify[c].items = DictDel(@, v)]

\* NotifyList.__setitem__ at position i (Python index i - 1): the read of
\* the stored element raises IndexError out of range; notify when it
\* differs, then store.
NotifyList_setitem(S, c, i, value) ==
    LET R == convert_to_notify_structure(S, value, S.notify[c].owner)
    IN IF i \notin DOMAIN S.notify[c].items THEN Raise(R.S, "IndexError")
       ELSE LET S1 == IF Contents(R.S.notify, S.notify[c].items[i])
                            # Contents(R.S.notify, R.value)
                      THEN owner_dirty(R.S, c) ELSE R.S
            IN [S1 EXCEPT !.notify[c].items[i] = R.value]

\* NotifyList.__delitem__: notify, then delete (IndexError out of range).
NotifyList_delitem(S, c, i) ==
    LET S1 == owner_dirty(S, c)
        l == S.notify[c].items
    IN IF i \notin DOMAIN l THEN Raise(S1, "IndexError")
       ELSE [S1 EXCEPT !.notify[c].items = SubSeq(l, 1, i - 1) \o SubSeq(l, i + 1, Len(l))]

\* NotifyList.append and NotifyList.extend: notify, then grow.
NotifyList_append(S, c, v) ==
    [owner_dirty(S, c) EXCEPT !.notify[c].items = Append(@, v)]
NotifyList_extend(S, c, v) ==
    [owner_dirty(S, c) EXCEPT !.notify[c].items = @ \o v]

\* --------------------------------------------------------- path addressing

get_jsonpath(S, r, p) == dpath_get(S.heap, S.data[r], p)
jsonpath_exists(S, r, p) == get_jsonpath(S, r, p) # NotFound

\* get_jsonpath(json_path, default) as the caller sees it: the value, or the
\* default when one was given, or AssetNotFoundError.
get_jsonpath_none_is_missing(S, r, p, default) ==
    LET v == get_jsonpath(S, r, p)
    IN IF v # NotFound THEN [S EXCEPT !.val = v]
       ELSE IF default # NO_ARGUMENT /\ default # None THEN [S EXCEPT !.val = default]
       ELSE Raise(S, "AssetNotFoundError")
get_jsonpath_call(S, r, p, default) ==
    LET v == get_jsonpath(S, r, p)
    IN IF v # NotFound THEN [S EXCEPT !.val = v]
       ELSE IF default # NO_ARGUMENT THEN [S EXCEPT !.val = default]
       ELSE Raise(S, "AssetNotFoundError")

\* jsonpath_exists as the caller sees it: the boolean it returns.
jsonpath_exists_call(S, r, p) == [S EXCEPT !.val = Bool(jsonpath_exists(S, r, p))]

set_jsonpath_overwriting(S, r, p, v, overwrite) ==
    LET S1 == set_dirty(S, r, TRUE)
    IN [S1 EXCEPT !.heap = dpath_new(S1.heap, S1.data[r][2], p, v)]
set_jsonpath(S, r, p, v, overwrite) ==
    IF jsonpath_exists(S, r, p) /\ ~overwrite THEN S
    ELSE LET S1 == set_dirty(S, r, TRUE)
         IN [S1 EXCEPT !.heap = dpath_new(S1.heap, S1.data[r][2], p, v)]

delete_jsonpath_dirtying(S, r, p) ==
    LET S1 == set_dirty(S, r, TRUE)
    IN IF jsonpath_exists(S, r, p)
       THEN [S1 EXCEPT !.heap = dpath_delete(S1.heap, S1.data[r][2], p)]
       ELSE S1
delete_jsonpath(S, r, p) ==
    IF jsonpath_exists(S, r, p)
    THEN LET S1 == set_dirty(S, r, TRUE)
         IN [S1 EXCEPT !.heap = dpath_delete(S1.heap, S1.data[r][2], p)]
    ELSE S

\* pop_jsonpath: get (which may raise), delete, then dirty in every case.
pop_jsonpath(S, r, p, default) ==
    LET S1 == get_jsonpath_call(S, r, p, default)
    IN IF S1.raised # "none" THEN S1
       ELSE set_dirty(delete_jsonpath(S1, r, p), r, TRUE)

\* The path segment get_data_at gives the element at position i of a list
\* (Python counts from 0).
IndexSegment(i) == "[" \o ToString(i - 1) \o "]"

\* get_data_at: the <<path, value>> pairs of the direct children of the value
\* at p - of a dict in key order, of a list in index order; none when the
\* path is missing (the lookup then gives the default, an empty list).
get_data_at(S, r, p) ==
    LET result == get_jsonpath(S, r, p)
    IN IF IsRef(result)
       THEN [i \in DOMAIN S.heap[result[2]] |->
                <<p \o <<S.heap[result[2]][i][1]>>, S.heap[result[2]][i][2]>>]
       ELSE IF IsList(result)
       THEN [i \in DOMAIN result[2] |-> <<p \o <<IndexSegment(i)>>, result[2][i]>>]
       ELSE <<>>

\* A get_data_at that yields nothing for a value that has no children.
get_data_at_lenient(S, r, p) == [S EXCEPT !.lst = get_data_at(S, r, p)]

\* get_data_at as the caller who consumes it sees it: the pairs, or
\* AmbiguousAssetError when the value at p is neither a dict nor a list.
\* (The generated accessors only call it on paths that hold a dict or
\* nothing.)
get_data_at_call(S, r, p) ==
    LET result == get_jsonpath(S, r, p)
    IN IF result # NotFound /\ ~IsRef(result) /\ ~IsList(result)
       THEN Raise(S, "AmbiguousAssetError")
       ELSE [S EXCEPT !.lst = get_data_at(S, r, p)]


\* ------------------------------------------------------------ construction

\* JsonSubResource.__init__: a clean, non-deleted resource holding the data it
\* is given (the very object, not a copy), with path and original path set
\* to json_path, registered as the last child of its parent.  The new
\* resource is Len(S.kind) + 1.
JsonSubResource(S, k, par, jp, d) ==
    LET n == Len(S.kind) + 1
    IN [S EXCEPT !.kind = Append(@, k),
                 !.pack = Append(@, S.pack[par]),
                 !.parent = Append(@, par),
                 !.dirty = Append(@, FALSE),
                 !.deleted = Append(@, FALSE),
                 !.resources = Append([@ EXCEPT ![par] = Append(@, n)], <<>>),
                 !.data = Append(@, d),
                 !.json_path = Append(@, jp),
                 !.original_json_path = Append(@, jp),
                 !.cache = Append(@, Unset),
                 !.filepath = Append(@, "")]

\* The loop of SubResourceDefinition: one new sub-resource per entry, each
\* appended to the list being built.
RECURSIVE DefineEach(_, _, _, _)
DefineEach(S, r, entries, i) ==
    IF i > Len(entries) THEN S
    ELSE LET S1 == JsonSubResource(S, ChildKind(S.kind[r]), r,
                                   entries[i][1], entries[i][2])
         IN DefineEach([S1 EXCEPT !.cache[r].list = Append(@, Len(S1.kind))],
                       r, entries, i + 1)

\* A collection accessor that scans the document on every access.
SubResourceDefinition_rescanning(S, r) ==
    DefineEach([S EXCEPT !.cache[r] = [set |-> TRUE, list |-> <<>>]], r,
               get_data_at(S, r, ChildJsonpath(S.kind[r])), 1)

\* The collection accessor (a cached_property): computed on the first access
\* from the entries found at the kind's jsonpath, and kept.
SubResourceDefinition(S, r) ==
    IF S.cache[r].set THEN S
    ELSE DefineEach([S EXCEPT !.cache[r] = [set |-> TRUE, list |-> <<>>]], r,
                    get_data_at(S, r, ChildJsonpath(S.kind[r])), 1)

\* JsonSubResource.id: the last segment of the path.
id(S, r) == S.json_path[r][Len(S.json_path[r])]

\* A Getter that raises when nothing matches.
Getter_raising(S, r, compare) ==
    LET S1 == SubResourceDefinition(S, r)
        lst == S1.cache[r].list
        hits == {i \in DOMAIN lst : id(S1, lst[i]) = compare}
    IN IF hits = {} THEN Raise(S1, "AssetNotFoundError")
       ELSE [S1 EXCEPT !.ret = lst[CHOOSE i \in hits : \A j \in hits : i <= j]]

\* Getter: the first element of the collection whose id equals compare, or
\* None (0); it raises nothing.
Getter(S, r, compare) ==
    LET S1 == SubResourceDefinition(S, r)
        lst == S1.cache[r].list
        hits == {i \in DOMAIN lst : id(S1, lst[i]) = compare}
    IN [S1 EXCEPT !.ret = IF hits = {} THEN 0
                           ELSE lst[CHOOSE i \in hits : \A j \in hits : i <= j]]

\* A SubResourceAdder that leaves the parent's document alone.
SubResourceAdder_unwritten(S, r, newid, d) ==
    LET new_jsonpath == ChildJsonpath(S.kind[r]) \o <<newid>>
        S2 == JsonSubResource(S, ChildKind(S.kind[r]), r, new_jsonpath, d)
        new_object == Len(S2.kind)
        S3 == SubResourceDefinition(S2, r)
    IN [S3 EXCEPT !.cache[r].list = Append(@, new_object), !.ret = new_object]

\* SubResourceAdder called with id and data: write the data at
\* <jsonpath>/<id>, construct the sub-resource on it, append it to the
\* collection (which is computed now if it was never accessed).
SubResourceAdder(S, r, newid, d) ==
    LET new_jsonpath == ChildJsonpath(S.kind[r]) \o <<newid>>
        S1 == set_jsonpath(S, r, new_jsonpath, d, TRUE)
        S2 == JsonSubResource(S1, ChildKind(S.kind[r]), r, new_jsonpath, d)
        new_object == Len(S2.kind)
        S3 == SubResourceDefinition(S2, r)
    IN [S3 EXCEPT !.cache[r].list = Append(@, new_object), !.ret = new_object]

\* SubResourceAdder called with resource=: write the resource's data into
\* this parent's document at the resource's path, make this parent the
\* resource's parent, append the resource to the collection (which is
\* computed now if it was never accessed).  Nothing is registered or
\* unregistered.
SubResourceAdder_resource(S, r, new_object) ==
    LET S1 == set_jsonpath(S, r, S.json_path[new_object], S.data[new_object], TRUE)
        S2 == [S1 EXCEPT !.parent[new_object] = r]
        S3 == SubResourceDefinition(S2, r)
    IN [S3 EXCEPT !.cache[r].list = Append(@, new_object), !.ret = new_object]


\* ------------------------------------------------------------------- save

\* smart_compare on two roots: path equality.
smart_compare(a, b) == a = b

\* JsonSubResource._save: unless deleted, fold the data into the parent at
\* the current path, after deleting the original path when they differ; then
\* clear the own flag (the attribute, not the propagating setter).
JsonSubResource_save(S, r) ==
    LET par == S.parent[r]
        S1 == IF S.deleted[r] THEN S
              ELSE IF S.json_path[r] # S.original_json_path[r]
              THEN set_jsonpath(delete_jsonpath(S, par, S.original_json_path[r]),
                                par, S.json_path[r], S.data[r], TRUE)
              ELSE set_jsonpath(S, par, S.json_path[r], S.data[r], TRUE)
    IN [S1 EXCEPT !.dirty[r] = FALSE]

\* The root of save_path: the pack's output directory.
save_root_input(S) == input_path
save_root(S) == S.output_directory

\* What JsonFileResource._save dumps: the top-level entries of the data
\* whose value is not None, each with all it holds.
clean_data(h, v) ==
    LET kept == SelectSeq(h[v[2]], LAMBDA e : e[2] # None)
    IN IF kept = <<>> THEN {<<<<>>, EmptyDictLeaf>>}
       ELSE UNION {{<<<<e[1]>> \o q[1], q[2]>> : q \in json_dump(h, e[2])} :
                   e \in Range(kept)}

\* JsonFileResource._save: a deleted file is removed from the output location
\* when the output root is the input root (os.remove raises when there is no
\* such file) and left alone otherwise; a live file's document, without its
\* top-level None entries, is written at output_directory/filepath (data
\* that is not a dict has no items()).
JsonFileResource_save(S, r) ==
    LET root == save_root(S)
        fp == S.filepath[r]
    IN IF S.deleted[r]
       THEN IF smart_compare(input_path, S.output_directory)
            THEN IF S.fs[root][fp].exists
                 THEN [S EXCEPT !.fs[root][fp] = NoFile]
                 ELSE Raise(S, "FileNotFoundError")
            ELSE S
       ELSE IF ~IsRef(S.data[r]) THEN Raise(S, "AttributeError")
       ELSE [S EXCEPT !.fs[root][fp] = FileOf(clean_data(S.heap, S.data[r]))]

\* The persistence action of a resource, by class.
_save(S, r) ==
    LET S1 == Log(S, <<"_save", r>>)
    IN IF S.kind[r] = "file" THEN JsonFileResource_save(S1, r)
       ELSE JsonSubResource_save(S1, r)

\* The two tests of Resource.save: a File Resource without a pack may not
\* save; only a dirty resource is saved, unless forced.
IsFloatingFile_dirty_only(S, r) == S.kind[r] = "file" /\ S.pack[r] = 0 /\ S.dirty[r]
IsFloatingFile(S, r) == S.kind[r] = "file" /\ S.pack[r] = 0
ShouldSave_always(S, r, force) == TRUE
ShouldSave(S, r, force) == S.dirty[r] \/ force

\* Resource.save, and its loop over the registered children.  An exception
\* ends the call where it is raised.
RECURSIVE save(_, _, _), save_children(_, _, _, _)
save(S, r, force) ==
    IF S.raised # "none" THEN S
    ELSE IF IsFloatingFile(S, r) THEN Raise(S, "FloatingAssetError")
    ELSE IF ShouldSave(S, r, force)
    THEN LET S1 == save_children(Log(S, <<"save", r>>), r, force, 1)
             S2 == IF S1.raised # "none" THEN S1 ELSE _save(S1, r)
         IN IF S2.raised # "none" THEN S2 ELSE set_dirty(S2, r, FALSE)
    ELSE S
save_children(S, r, force, i) ==
    IF S.raised # "none" \/ i > Len(S.resources[r]) THEN S
    ELSE save_children(save(S, S.resources[r][i], force), r, force, i + 1)

\* An __exit__ that saves only when the block ended normally.
exit_unless_exception(S, r, exc) ==
    IF exc THEN Log(S, <<"__exit__", r>>)
    ELSE save(Log(S, <<"__exit__", r>>), r, FALSE)

\* Resource.__exit__: save(), whether or not the block raised (exc); it
\* returns None, so an exception of the block goes on to the caller.
__exit__(S, r, exc) == save(Log(S, <<"__exit__", r>>), r, FALSE)

\* Pack.save: save every registered resource, in order.
RECURSIVE Pack_save(_, _, _)
Pack_save(S, force, i) ==
    IF S.raised # "none" \/ i > Len(S.pack_resources) THEN S
    ELSE Pack_save(save(S, S.pack_resources[i], force), force, i + 1)

\* ----------------------------------------------------------- LanguageFile

\* A string is the sequence of its characters.
Tab == "\t"
Whitespace == {" ", Tab}
NoHash(str) == \A i \in DOMAIN str : str[i] # "#"
AllHash(str) == \A i \in DOMAIN str : str[i] = "#"

\* str.strip()
RECURSIVE strip(_)
strip(str) ==
    IF str = <<>> THEN str
    ELSE IF Head(str) \in Whitespace THEN strip(Tail(str))
    ELSE IF str[Len(str)] \in Whitespace THEN strip(SubSeq(str, 1, Len(str) - 1))
    ELSE str

\* Translation(key, value, comment)
Translation(key, value, comment) == [key |-> key, value |-> value, comment |-> comment]

\* str(None), the comment of a Translation made without one, as written.
NoneText == <<"N", "o", "n", "e">>

\* The line _save writes for a translation: key=value<tab>##comment
TranslationLine(t) == t.key \o <<"=">> \o t.value \o <<Tab, "#", "#">> \o t.comment

\* re.search of language_regex ^([^#\n]+?)=([^#]+)#*?([^#]*?)$ on a line:
\* the ways to split the line into key "=" value hashes comment, of which
\* the regex takes the one with the shortest key, then the longest value,
\* then the fewest hashes.  A split is <<i, v, h>>: "=" at position i, a
\* value of v characters, h hashes.
Splits(line) ==
    {sp \in (2..Len(line)) \X (1..Len(line)) \X (0..Len(line)) :
        LET i == sp[1]
            v == sp[2]
            h == sp[3]
        IN /\ i + v + h <= Len(line)
           /\ line[i] = "="
           /\ NoHash(SubSeq(line, 1, i - 1))
           /\ NoHash(SubSeq(line, i + 1, i + v))
           /\ AllHash(SubSeq(line, i + v + 1, i + v + h))
           /\ NoHash(SubSeq(line, i + v + h + 1, Len(line)))}
Preferred(a, b) ==
    \/ a[1] < b[1]
    \/ a[1] = b[1] /\ a[2] > b[2]
    \/ a[1] = b[1] /\ a[2] = b[2] /\ a[3] <= b[3]
language_regex(line) ==
    LET sp == CHOOSE a \in Splits(line) : \A b \in Splits(line) : Preferred(a, b)
    IN Translation(strip(SubSeq(line, 1, sp[1] - 1)),
                   strip(SubSeq(line, sp[1] + 1, sp[1] + sp[2])),
                   strip(SubSeq(line, sp[1] + sp[2] + sp[3] + 1, Len(line))))

\* The loop of the translations property: one Translation per line that
\* matches.
RECURSIVE ReadLines(_, _)
ReadLines(lines, i) ==
    IF i > Len(lines) THEN <<>>
    ELSE (IF Splits(lines[i]) = {} THEN <<>> ELSE <<language_regex(lines[i])>>)
         \o ReadLines(lines, i + 1)

\* LanguageFile.translations (a cached_property): on the first access the
\* translations read from the file are appended to the private list.
translations(S) ==
    IF S.lang.cached THEN S
    ELSE [S EXCEPT !.lang.cached = TRUE,
                   !.lang.translations = @ \o ReadLines(S.lang.file, 1)]

\* LanguageFile.contains_translation, on a state where translations was read.
contains_translation(S, key) ==
    \E i \in DOMAIN S.lang.translations : S.lang.translations[i].key = key

\* LanguageFile.get_translation: the first translation with the key, in val.
get_translation(S, key) ==
    LET S1 == translations(S)
        l == S1.lang.translations
        hits == {i \in DOMAIN l : l[i].key = key}
    IN IF hits = {} THEN Raise(S1, "AssetNotFoundError")
       ELSE [S1 EXCEPT !.val = l[CHOOSE i \in hits : \A j \in hits : i <= j]]

\* LanguageFile.add_translation: False when the key is there and overwrite
\* is off; otherwise dirty, append to the private list, True.
add_translation(S, translation, overwrite) ==
    LET S1 == translations(S)
    IN IF contains_translation(S1, translation.key) /\ ~overwrite
       THEN [S1 EXCEPT !.val = Bool(FALSE)]
       ELSE [S1 EXCEPT !.lang.dirty = TRUE,
                       !.lang.translations = Append(@, translation),
                       !.val = Bool(TRUE)]

\* LanguageFile._save: one line per translation of the translations
\* property, written over the file.
LanguageFile_save(S) ==
    LET S1 == translations(S)
        l == S1.lang.translations
    IN [S1 EXCEPT !.lang.file = [i \in DOMAIN l |-> TranslationLine(l[i])]]

\* Resource.save of reticulator.py on the language file (it has a pack and
\* no registered children): when dirty or forced, clear the flag, then _save.
Resource_save(S, force) ==
    IF S.lang.dirty \/ force
    THEN LanguageFile_save([S EXCEPT !.lang.dirty = FALSE])
    ELSE S

\* ---------------------------------------------------------------- Project

\* Pack.resources of either pack.
PackResources(S, pk) ==
    IF pk = behavior_pack THEN S.pack_resources ELSE S.project.resources

\* Pack.save of either pack: save every registered resource, in order.
RECURSIVE Pack_save_of(_, _, _, _)
Pack_save_of(S, pk, force, i) ==
    IF S.raised # "none" \/ i > Len(PackResources(S, pk)) THEN S
    ELSE Pack_save_of(save(S, PackResources(S, pk)[i], force), pk, force, i + 1)

\* The cached_property behavior_pack / resource_pack: the first access
\* constructs the pack, stores it in the private attribute and caches it.
Project_pack(S, pk) ==
    IF S.project.cached[pk] THEN S
    ELSE [S EXCEPT !.project.cached[pk] = TRUE,
                   !.project.attr[pk] = TRUE,
                   !.project.built[pk] = @ + 1]

\* Project.save: save() on the private attribute of the behavior pack, then
\* on that of the resource pack; an attribute that is still None has no
\* save (AttributeError).
Project_save(S, force) ==
    IF ~S.project.attr[behavior_pack] THEN Raise(S, "AttributeError")
    ELSE LET S1 == Pack_save_of(Log(S, <<"pack_save", behavior_pack>>),
                                behavior_pack, force, 1)
         IN IF S1.raised # "none" THEN S1
            ELSE IF ~S1.project.attr[resource_pack] THEN Raise(S1, "AttributeError")
            ELSE Pack_save_of(Log(S1, <<"pack_save", resource_pack>>),
                              resource_pack, force, 1)

\* ----------------------------------------------------------------- delete

\* list.remove: drop the first occurrence.
Remove(seq, x) ==
    LET i == CHOOSE j \in DOMAIN seq : seq[j] = x /\ \A m \in DOMAIN seq : seq[m] = x => j <= m
    IN SubSeq(seq, 1, i - 1) \o SubSeq(seq, i + 1, Len(seq))

\* FileResource._delete: mark the file; nothing else changes.
FileResource_delete(S, r) == [S EXCEPT !.deleted[r] = TRUE]

\* JsonSubResource._delete: dirty the parent, unregister from it (list.remove
\* raises ValueError when not registered), mark deleted, delete the data at
\* the current path from the parent.
JsonSubResource_delete(S, r) ==
    LET par == S.parent[r]
        S1 == set_dirty(S, par, TRUE)
    IN IF r \notin Range(S1.resources[par]) THEN Raise(S1, "ValueError")
       ELSE delete_jsonpath([S1 EXCEPT !.resources[par] = Remove(@, r),
                                       !.deleted[r] = TRUE],
                            par, S.json_path[r])

_delete(S, r) ==
    LET S1 == Log(S, <<"_delete", r>>)
    IN IF S.kind[r] = "file" THEN FileResource_delete(S1, r)
       ELSE JsonSubResource_delete(S1, r)

\* Resource.delete.  The loop is Python's iteration over the live list
\* self._resources by position: an element that unregisters itself while the
\* loop runs shifts its successors one position down.
RECURSIVE delete(_, _), delete_children(_, _, _)
delete(S, r) ==
    IF S.raised # "none" THEN S
    ELSE LET S1 == delete_children(Log(S, <<"delete", r>>), r, 1)
         IN IF S1.raised # "none" THEN S1 ELSE _delete(S1, r)
delete_children(S, r, i) ==
    IF S.raised # "none" \/ i > Len(S.resources[r]) THEN S
    ELSE delete_children(delete(S, S.resources[r][i]), r, i + 1)


\* ---------------------------------------------------------- initial states

\* The document of entities/f1.json: one group "a" with a field and two
\* components, as the dict objects json.load builds for it.
\*   {"groups": {"a": {"v": 0, "components": {"x": {"v": 0}, "y": {"v": 0}}}}}
LoadedHeap ==
    << <<<<"groups", Ref(2)>>>>,
       <<<<"a", Ref(3)>>>>,
       <<<<"v", Scalar(0)>>, <<"components", Ref(4)>>>>,
       <<<<"x", Ref(5)>>, <<"y", Ref(6)>>>>,
       <<<<"v", Scalar(0)>>>>,
       <<<<"v", Scalar(0)>>>> >>

\* A JsonFileResource right after construction: clean, not deleted, nothing
\* registered, no collection computed.  With a pack it was loaded from the
\* input root and registered to the pack; without one it holds literal data
\* and no file exists for it.
Constructed(attached) ==
    [kind |-> <<"file">>, pack |-> <<IF attached THEN 1 ELSE 0>>, parent |-> <<0>>,
     dirty |-> <<FALSE>>, deleted |-> <<FALSE>>, resources |-> << <<>> >>,
     data |-> <<Ref(1)>>, json_path |-> << <<>> >>, original_json_path |-> << <<>> >>,
     cache |-> <<Unset>>, filepath |-> <<"entities/f1.json">>, heap |-> LoadedHeap,
     fs |-> [root \in Roots |-> [fp \in FilePaths |->
                IF attached /\ root = input_path /\ fp = "entities/f1.json"
                THEN FileOf(json_dump(LoadedHeap, Ref(1))) ELSE NoFile]],
     pack_resources |-> IF attached THEN <<1>> ELSE <<>>,
     pack_cache |-> Unset,
     output_directory |-> input_path, notify |-> <<>>, project |-> NoProject,
     lang |-> NoLanguageFile,
     raised |-> "none", log |-> <<>>, ret |-> 0, val |-> NotFound, lst |-> <<>>]

\* A document with entries that hold null, at the top level and below it:
\*   {"format": null, "groups": {"a": {"v": null}}}
LoadedHeapNull ==
    << <<<<"format", None>>, <<"groups", Ref(2)>>>>,
       <<<<"a", Ref(3)>>>>,
       <<<<"v", None>>>> >>

\* The documents entities/f1.json may hold when it is loaded.
RoundDocs == {LoadedHeap, LoadedHeapNull}

\* An attached JsonFileResource right after construction on the document h
\* found under the input root.
ConstructedOn(h) ==
    [Constructed(TRUE) EXCEPT
        !.heap = h,
        !.fs[input_path]["entities/f1.json"] = FileOf(json_dump(h, Ref(1)))]

\* The caller may already have enumerated the file's groups (level 1) and
\* the components of each group (level 2).
RECURSIVE AccessAll(_, _, _)
AccessAll(S, lst, i) ==
    IF i > Len(lst) THEN S
    ELSE AccessAll(SubResourceDefinition(S, lst[i]), lst, i + 1)
Accessed(S, level) ==
    IF level = 0 THEN S
    ELSE LET S1 == SubResourceDefinition(S, 1)
         IN IF level = 1 THEN S1 ELSE AccessAll(S1, S1.cache[1].list, 1)

\* ---------------------------------------------------------------- the pack

\* The second document under the input root, entities/f2.json:
\*   {"groups": {"b": {"v": 0}}}
LoadedHeap2 ==
    << <<<<"groups", Ref(2)>>>>,
       <<<<"b", Ref(3)>>>>,
       <<<<"v", Scalar(0)>>>> >>

\* The documents under the input root when the pack is constructed, as the
\* dict objects json.load builds for each (references count from 1).
InputDocs ==
    [fp \in FilePaths |->
        IF fp = "entities/f1.json" THEN LoadedHeap
        ELSE IF fp = "entities/f2.json" THEN LoadedHeap2
        ELSE << <<>> >>]
InputFiles == {"entities/f1.json", "entities/f2.json"}

\* The objects of a parsed document placed after k objects of the heap.
Shift(objs, k) ==
    [i \in DOMAIN objs |->
        [j \in DOMAIN objs[i] |->
            <<objs[i][j][1],
              IF IsRef(objs[i][j][2]) THEN Ref(objs[i][j][2][2] + k) ELSE objs[i][j][2]>>]]

\* load_json: the file under the input root parsed into fresh dict objects;
\* AssetNotFoundError when there is no such file.  (A file is only ever
\* loaded while it holds the document the pack was constructed on.)
load_json(S, fp) ==
    IF ~S.fs[input_path][fp].exists THEN Raise(S, "AssetNotFoundError")
    ELSE [S EXCEPT !.heap = @ \o Shift(InputDocs[fp], Len(@)),
                   !.val = Ref(Len(S.heap) + 1)]

\* JsonFileResource.__init__ with a pack.  FileResource.__init__ (through
\* Resource.__init__) makes a clean resource and registers it to the pack;
\* the data setter stores the given or the loaded data and sets dirty;
\* JsonResource.__init__ then runs Resource.__init__ again, which resets
\* dirty, deleted and the registered children, and stores the data.
\* d = NO_ARGUMENT stands for data=None.  The new resource is Len(S.kind) + 1.
JsonFileResource(S, fp, d) ==
    LET n == Len(S.kind) + 1
        S1 == [S EXCEPT !.kind = Append(@, "file"),
                        !.pack = Append(@, 1),
                        !.parent = Append(@, 0),
                        !.dirty = Append(@, FALSE),
                        !.deleted = Append(@, FALSE),
                        !.resources = Append(@, <<>>),
                        !.data = Append(@, None),
                        !.json_path = Append(@, <<>>),
                        !.original_json_path = Append(@, <<>>),
                        !.cache = Append(@, Unset),
                        !.filepath = Append(@, fp),
                        !.pack_resources = Append(@, n)]
        S2 == IF d # NO_ARGUMENT THEN [S1 EXCEPT !.val = d] ELSE load_json(S1, fp)
    IN IF S2.raised # "none" THEN S2
       ELSE LET S3 == [S2 EXCEPT !.dirty[n] = TRUE, !.data[n] = S2.val]
            IN [S3 EXCEPT !.dirty[n] = FALSE, !.deleted[n] = FALSE,
                          !.resources[n] = <<>>, !.data[n] = S3.data[n],
                          !.val = NotFound, !.ret = n]

\* The same constructor given either pack of a project: register_resource
\* of the resource pack appends to that pack's list.
JsonFileResourceIn(S, pk, fp, d) ==
    LET S1 == JsonFileResource(S, fp, d)
        n == Len(S.kind) + 1
    IN IF pk = behavior_pack THEN S1
       ELSE [S1 EXCEPT !.pack[n] = pk,
                       !.pack_resources = S.pack_resources,
                       !.project.resources = Append(@, n)]

\* glob: the files under the input root, in an order the operating system
\* chooses.
Glob(S) == {fp \in InputFiles : S.fs[input_path][fp].exists}
GlobOrders(S) ==
    {q \in [1..Cardinality(Glob(S)) -> Glob(S)] :
        \A i, j \in DOMAIN q : i # j => q[i] # q[j]}

\* The loop of ResourceDefinition: one file resource per path found.
RECURSIVE DiscoverEach(_, _, _)
DiscoverEach(S, order, i) ==
    IF i > Len(order) \/ S.raised # "none" THEN S
    ELSE LET S1 == JsonFileResource(S, order[i], NO_ARGUMENT)
         IN DiscoverEach([S1 EXCEPT !.pack_cache.list = Append(@, Len(S1.kind))],
                         order, i + 1)

\* The pack's collection of files (a cached_property): computed on the
\* first access from the files glob finds, and kept.
ResourceDefinition(S, order) ==
    IF S.pack_cache.set THEN S
    ELSE DiscoverEach([S EXCEPT !.pack_cache = [set |-> TRUE, list |-> <<>>]], order, 1)

\* The base path of the file kind (type_info.filepath).
base_filepath == "entities"

\* ResourceAdder: construct the file resource on the data and append it
\* to the pack's collection (computed now if it was never accessed).
ResourceAdder(S, order, name, d) ==
    LET new_filepath == base_filepath \o "/" \o name
        S1 == JsonFileResource(S, new_filepath, d)
        new_object == Len(S1.kind)
        S2 == ResourceDefinition(S1, order)
    IN [S2 EXCEPT !.pack_cache.list = Append(@, new_object), !.ret = new_object]

\* JsonChildResource: the children of every file of the pack's collection,
\* file after file; computed on every access.
RECURSIVE ChildrenOfEach(_, _, _)
ChildrenOfEach(S, files, i) ==
    IF i > Len(files) THEN S
    ELSE LET S1 == SubResourceDefinition(S, files[i])
         IN ChildrenOfEach([S1 EXCEPT !.lst = @ \o S1.cache[files[i]].list],
                           files, i + 1)
JsonChildResource(S, order) ==
    LET S1 == ResourceDefinition(S, order)
    IN ChildrenOfEach([S1 EXCEPT !.lst = <<>>], S1.pack_cache.list, 1)

\* ChildGetter: the loop over the files returns in its first round - the
\* matching child of the first file, or None after the first file's
\* children were scanned; None also when there is no file.
ChildGetter(S, order, compare) ==
    LET S1 == ResourceDefinition(S, order)
        files == S1.pack_cache.list
    IN IF files = <<>> THEN [S1 EXCEPT !.ret = 0]
       ELSE LET S2 == SubResourceDefinition(S1, files[1])
                l == S2.cache[files[1]].list
                hits == {i \in DOMAIN l : id(S2, l[i]) = compare}
            IN [S2 EXCEPT !.ret = IF hits = {} THEN 0
                                  ELSE l[CHOOSE i \in hits : \A j \in hits : i <= j]]

\* A pack constructed on an input root that holds the two documents; no
\* file resource exists yet.
ConstructedPack ==
    [kind |-> <<>>, pack |-> <<>>, parent |-> <<>>, dirty |-> <<>>,
     deleted |-> <<>>, resources |-> <<>>, data |-> <<>>, json_path |-> <<>>,
     original_json_path |-> <<>>, cache |-> <<>>, filepath |-> <<>>,
     heap |-> <<>>,
     fs |-> [root \in Roots |-> [fp \in FilePaths |->
                IF root = input_path /\ fp \in InputFiles
                THEN FileOf(json_dump(InputDocs[fp], Ref(1))) ELSE NoFile]],
     pack_resources |-> <<>>, pack_cache |-> Unset,
     output_directory |-> input_path, notify |-> <<>>, project |-> NoProject,
     lang |-> NoLanguageFile,
     raised |-> "none", log |-> <<>>, ret |-> 0, val |-> NotFound, lst |-> <<>>]

\* The caller may already have enumerated the pack's files (level 1) and
\* the groups of each file (level 2).
AccessedPack(S, order, level) ==
    IF level = 0 THEN S
    ELSE LET S1 == ResourceDefinition(S, order)
         IN IF level = 1 THEN S1 ELSE AccessAll(S1, S1.pack_cache.list, 1)

\* The record of a call: what was called on which resource with which
\* arguments, what it raised and returned, the internal calls it made (log),
\* the path and the registered children of r when it was called, and the
\* call made before it.
NoBefore == [op |-> "none", r |-> 0, force |-> FALSE, raised |-> "none", path0 |-> <<>>]
NoCall == [op |-> "init", r |-> 0, arg |-> <<>>, force |-> FALSE,
           default |-> NO_ARGUMENT,
           raised |-> "none", log |-> <<>>, ret |-> 0, val |-> NotFound,
           lst |-> <<>>,
           path0 |-> <<>>, children0 |-> <<>>, before |-> NoBefore]

Start(S) ==
    /\ kind = S.kind /\ pack = S.pack /\ parent = S.parent
    /\ dirty = S.dirty /\ deleted = S.deleted /\ resources = S.resources
    /\ data = S.data /\ json_path = S.json_path
    /\ original_json_path = S.original_json_path /\ cache = S.cache
    /\ filepath = S.filepath /\ heap = S.heap /\ fs = S.fs
    /\ pack_resources = S.pack_resources /\ pack_cache = S.pack_cache
    /\ output_directory = S.output_directory /\ notify = S.notify
    /\ project = S.project /\ lang = S.lang
    /\ last = NoCall /\ steps = 0

Init == \E level \in 0..2 : Start(Accessed(Constructed(TRUE), level))
InitFloating == \E level \in 0..2 : Start(Accessed(Constructed(FALSE), level))
InitPack ==
    \E level \in 0..2 : \E order \in GlobOrders(ConstructedPack) :
        Start(AccessedPack(ConstructedPack, order, level))
\* The caller holds a NotifyDict and a NotifyList of scalars, both owned by
\* the file, by its group, or by nothing (0).
Owners == 0..2
InitNotify ==
    \E o \in Owners :
        Start([Accessed(Constructed(TRUE), 1) EXCEPT
                  !.notify = <<NotifyDict(<<<<"v", Scalar(0)>>>>, o),
                               NotifyList(<<Scalar(0), Scalar(1)>>, o)>>])
\* A project whose packs were accessed or not, each accessed pack with its
\* file constructed or not: entities/f1.json belongs to the behavior pack,
\* entities/f2.json to the resource pack.
PackFile(pk) == IF pk = behavior_pack THEN "entities/f1.json" ELSE "entities/f2.json"
RECURSIVE ProjectAt(_, _, _)
ProjectAt(S, stage, pk) ==
    IF pk > resource_pack THEN S
    ELSE LET S1 == IF stage[pk] >= 1 THEN Project_pack(S, pk) ELSE S
             S2 == IF stage[pk] = 2
                   THEN JsonFileResourceIn(S1, pk, PackFile(pk), NO_ARGUMENT) ELSE S1
         IN ProjectAt(S2, stage, pk + 1)
InitProject ==
    \E stage \in [Packs -> 0..2] : Start(ProjectAt(ConstructedPack, stage, behavior_pack))
\* A LanguageFile of the pack right after construction, on a file of two
\* lines:  k=x<tab>##   and   c=y<tab>##note
LangLines ==
    << <<"k", "=", "x", Tab, "#", "#">>,
       <<"c", "=", "y", Tab, "#", "#", "n">> >>
InitLang ==
    Start([Constructed(TRUE) EXCEPT
              !.lang = [dirty |-> FALSE, cached |-> FALSE, translations |-> <<>>,
                        file |-> LangLines]])
\* The file loaded from either document.
InitRound ==
    \E h \in RoundDocs : \E level \in 0..2 : Start(Accessed(ConstructedOn(h), level))
\* The file alone, or the file with its groups enumerated.
InitJson == \E level \in 0..1 : Start(Accessed(Constructed(TRUE), level))

\* ---------------------------------------------------------------- actions

\* The state a call leaves, and the record of the call.
CommitCall(S, op, r, arg, force, default) ==
    /\ steps < MaxSteps
    /\ kind' = S.kind /\ pack' = S.pack /\ parent' = S.parent
    /\ dirty' = S.dirty /\ deleted' = S.deleted /\ resources' = S.resources
    /\ data' = S.data /\ json_path' = S.json_path
    /\ original_json_path' = S.original_json_path /\ cache' = S.cache
    /\ filepath' = S.filepath /\ heap' = S.heap /\ fs' = S.fs
    /\ pack_resources' = S.pack_resources /\ pack_cache' = S.pack_cache
    /\ output_directory' = S.output_directory /\ notify' = S.notify
    /\ project' = S.project /\ lang' = S.lang
    /\ last' = [op |-> op, r |-> r, arg |-> arg, force |-> force,
                default |-> default,
                raised |-> S.raised, log |-> S.log, ret |-> S.ret, val |-> S.val,
                lst |-> S.lst,
                path0 |-> IF r = 0 THEN <<>> ELSE json_path[r],
                children0 |-> IF r = 0 THEN pack_resources ELSE resources[r],
                before |-> [op |-> last.op, r |-> last.r, force |-> last.force,
                            raised |-> last.raised, path0 |-> last.path0]]
    /\ steps' = steps + 1

Commit(S, op, r, arg, force) == CommitCall(S, op, r, arg, force, NO_ARGUMENT)

\* The same record of a call, for the runs of renames and saves, which are
\* one call longer.
CommitRename(S, op, r, arg, force) ==
    /\ steps < MaxRenameSteps
    /\ kind' = S.kind /\ pack' = S.pack /\ parent' = S.parent
    /\ dirty' = S.dirty /\ deleted' = S.deleted /\ resources' = S.resources
    /\ data' = S.data /\ json_path' = S.json_path
    /\ original_json_path' = S.original_json_path /\ cache' = S.cache
    /\ filepath' = S.filepath /\ heap' = S.heap /\ fs' = S.fs
    /\ pack_resources' = S.pack_resources /\ pack_cache' = S.pack_cache
    /\ output_directory' = S.output_directory /\ notify' = S.notify
    /\ project' = S.project /\ lang' = S.lang
    /\ last' = [op |-> op, r |-> r, arg |-> arg, force |-> force,
                default |-> NO_ARGUMENT,
                raised |-> S.raised, log |-> S.log, ret |-> S.ret, val |-> S.val,
                lst |-> S.lst,
                path0 |-> json_path[r],
                children0 |-> resources[r],
                before |-> [op |-> last.op, r |-> last.r, force |-> last.force,
                            raised |-> last.raised, path0 |-> last.path0]]
    /\ steps' = steps + 1

AllRes == DOMAIN kind
SubRes == {r \in AllRes : kind[r] # "file"}
Parents == {r \in AllRes : HasChildKind(kind[r])}

\* Inputs.
NewIds == {"z"}
AddIds == {"n"}
GetIds == {"a", "x", "z"}
Fields == {"v"}

\* r.<plural>: read the collection of r.
Collection ==
    \E r \in Parents : Commit(SubResourceDefinition(Cur, r), "collection", r, <<>>, FALSE)

\* r.get_<kind>(x)
Get ==
    \E r \in Parents : \E x \in GetIds :
        Commit(Getter(Cur, r, x), "get", r, <<x>>, FALSE)

\* r.set_jsonpath(field, 1)
SetJsonpath ==
    \E r \in AllRes : \E k \in Fields :
        Commit(set_jsonpath(Cur, r, <<k>>, Scalar(1), TRUE), "set_jsonpath", r, <<k>>, FALSE)

\* r.json_path = p  (the setter: dirty first, then the path)
json_path_setter(S, r, p) == [set_dirty(S, r, TRUE) EXCEPT !.json_path[r] = p]

\* A path string is the sequence of its "/"-separated segments, and so is
\* an identifier string: "z" is <<"z">>, "z/w" is <<"z", "w">>.
\* str.rsplit("/", maxsplit=1) gives one part when the string has no "/"
\* and two parts, all but the last segment and the last segment, otherwise.
rsplit(str) ==
    IF Len(str) = 1 THEN <<str>>
    ELSE <<SubSeq(str, 1, Len(str) - 1), <<str[Len(str)]>> >>

\* r.id = x  (the setter: dirty, then json_path = rsplit(json_path)[0] + "/" + x)
id_setter(S, r, x) ==
    LET S1 == set_dirty(S, r, TRUE)
    IN json_path_setter(S1, r, rsplit(S1.json_path[r])[1] \o x)

\* r.id as the caller reads it: rsplit(json_path)[1], which does not exist
\* (IndexError) when the path has no "/".
id_getter(S, r) ==
    IF Len(rsplit(S.json_path[r])) < 2 THEN Raise(S, "IndexError")
    ELSE [S EXCEPT !.val = rsplit(S.json_path[r])[2]]

SetId ==
    \E r \in SubRes : \E x \in NewIds : Commit(id_setter(Cur, r, <<x>>), "id", r, <<x>>, FALSE)

SetJsonPath ==
    \E r \in SubRes : \E x \in NewIds :
        LET p == <<json_path[r][1], "moved", x>>
        IN Commit(json_path_setter(Cur, r, p), "json_path", r, p, FALSE)

\* r.data = {"v": 2}  (the setter: dirty, then the new object is stored)
data_setter(S, r, d) == [set_dirty(S, r, TRUE) EXCEPT !.data[r] = d]

SetData ==
    \E r \in AllRes :
        LET n == Len(heap) + 1
            S1 == [Cur EXCEPT !.heap = Append(@, <<<<"v", Scalar(2)>>>>)]
        IN Commit(data_setter(S1, r, Ref(n)), "data", r, <<>>, FALSE)

\* r.data[k] = 1 and del r.data[k]: the data is the plain dict that json.load
\* or the caller built, so the write reaches no resource.
dict_setitem(S, r, k, v) == [S EXCEPT !.heap[S.data[r][2]] = DictSet(@, k, v)]
dict_delitem(S, r, k) == [S EXCEPT !.heap[S.data[r][2]] = DictDel(@, k)]

DataSetItem ==
    \E r \in AllRes : \E k \in Fields :
        /\ get_jsonpath(Cur, r, <<k>>) # Scalar(1)
        /\ Commit(dict_setitem(Cur, r, k, Scalar(1)), "data_setitem", r, <<k>>, FALSE)

DataDelItem ==
    \E r \in AllRes : \E k \in Fields :
        /\ jsonpath_exists(Cur, r, <<k>>)
        /\ Commit(dict_delitem(Cur, r, k), "data_delitem", r, <<k>>, FALSE)

\* r.add_<kind>(id=x, data={"v": 1})
Add ==
    \E r \in Parents : \E x \in AddIds :
        LET n == Len(heap) + 1
            S1 == [Cur EXCEPT !.heap = Append(@, <<<<"v", Scalar(1)>>>>)]
        IN Commit(SubResourceAdder(S1, r, x, Ref(n)), "add", r, <<x>>, FALSE)

\* r.add_<kind>(resource=s), for a sub-resource s of r's kind of child
AddResource ==
    \E r \in Parents :
        \E s \in {s \in SubRes : kind[s] = ChildKind(kind[r])} :
            Commit(SubResourceAdder_resource(Cur, r, s), "add_resource", r, <<s>>, FALSE)

\* r.save(force), also what leaving a with-block on r calls (force = False)
Save ==
    \E r \in AllRes : \E force \in BOOLEAN :
        Commit(save(Cur, r, force), "save", r, <<>>, force)

\* pack.save(force)
PackSave ==
    /\ steps < MaxSteps
    /\ \E force \in BOOLEAN :
           Commit(Pack_save(Cur, force, 1), "pack_save", 0, <<>>, force)

\* r.delete()
Delete ==
    \E r \in AllRes : Commit(delete(Cur, r), "delete", r, <<>>, FALSE)

\* pack.output_directory = root
SetOutputDirectory ==
    \E root \in Roots \ {output_directory} :
        Commit([Cur EXCEPT !.output_directory = root], "output_directory", 0, <<root>>, FALSE)

\* with r: r.set_jsonpath(field, 1)  - and the same block ending in an
\* exception of its own (exc).  __enter__ returns r; the flag r has inside
\* the block, after the write, is recorded in val.
WithBlock(S, r, k, exc) ==
    LET S1 == set_jsonpath(S, r, <<k>>, Scalar(1), TRUE)
        S2 == __exit__(S1, r, exc)
        S3 == IF S2.raised = "none" /\ exc THEN Raise(S2, "BlockError") ELSE S2
    IN [S3 EXCEPT !.val = Bool(S1.dirty[r])]

With ==
    \E r \in AllRes : \E k \in Fields : \E exc \in BOOLEAN :
        CommitCall(WithBlock(Cur, r, k, exc), "with", r, <<k>>, FALSE, Bool(exc))

\* The calls on a Notify Container: keys and positions that are there and
\* that are not, values equal to and different from the stored ones.
Containers == DOMAIN notify
NotifyKeys == {"v", "n"}
NotifyPositions == 1..3
NotifyValues == {Scalar(0), Scalar(1), None}
ExtendLists == {<<>>, <<Scalar(1)>>}

\* c[key] = value
NotifySetItem ==
    \E c \in Containers : \E value \in NotifyValues :
        IF notify[c].cls = "dict"
        THEN \E attr \in NotifyKeys :
                 Commit(NotifyDict_setitem(Cur, c, attr, value), "notify_setitem",
                        notify[c].owner, [c |-> c, key |-> attr, value |-> value], FALSE)
        ELSE \E i \in NotifyPositions :
                 Commit(NotifyList_setitem(Cur, c, i, value), "notify_setitem",
                        notify[c].owner, [c |-> c, key |-> i, value |-> value], FALSE)

\* del c[key]
NotifyDelItem ==
    \E c \in Containers :
        IF notify[c].cls = "dict"
        THEN \E attr \in NotifyKeys :
                 Commit(NotifyDict_delitem(Cur, c, attr), "notify_delitem",
                        notify[c].owner, [c |-> c, key |-> attr], FALSE)
        ELSE \E i \in NotifyPositions :
                 Commit(NotifyList_delitem(Cur, c, i), "notify_delitem",
                        notify[c].owner, [c |-> c, key |-> i], FALSE)

\* c.append(value)
NotifyAppend ==
    \E c \in Containers : \E value \in NotifyValues :
        /\ notify[c].cls = "list"
        /\ Commit(NotifyList_append(Cur, c, value), "notify_append",
                  notify[c].owner, [c |-> c, value |-> <<value>>], FALSE)

\* c.extend(values)
NotifyExtend ==
    \E c \in Containers : \E values \in ExtendLists :
        /\ notify[c].cls = "list"
        /\ Commit(NotifyList_extend(Cur, c, values), "notify_extend",
                  notify[c].owner, [c |-> c, value |-> values], FALSE)

\* The same calls with raw data: a dict that holds a list, and a list.
NestedValues == {RawDict(<<<<"n", List(<<>>)>>>>), List(<<Scalar(0)>>)}

\* NotifyDict(raw, owner=o) and NotifyList(raw, owner=o)
NestedConstruct ==
    /\ steps < MaxSteps
    /\ \E o \in Owners : \E raw \in NestedValues :
           Commit(convert_to_notify_structure(Cur, raw, o).S, "notify_construct",
                  o, [value |-> raw], FALSE)

\* c[key] = raw
NestedSetItem ==
    \E c \in Containers : \E value \in NestedValues :
        IF notify[c].cls = "dict"
        THEN \E attr \in NotifyKeys :
                 Commit(NotifyDict_setitem(Cur, c, attr, value), "nested_setitem",
                        notify[c].owner, [c |-> c, key |-> attr, value |-> value], FALSE)
        ELSE \E i \in NotifyPositions :
                 Commit(NotifyList_setitem(Cur, c, i, value), "nested_setitem",
                        notify[c].owner, [c |-> c, key |-> i, value |-> value], FALSE)

\* c.append(raw)
NestedAppend ==
    \E c \in Containers : \E value \in NestedValues :
        /\ notify[c].cls = "list"
        /\ Commit(NotifyList_append(Cur, c, value), "nested_append",
                  notify[c].owner, [c |-> c, value |-> <<value>>], FALSE)

\* c.extend([raw])
NestedExtend ==
    \E c \in Containers : \E value \in NestedValues :
        /\ notify[c].cls = "list"
        /\ Commit(NotifyList_extend(Cur, c, <<value>>), "nested_extend",
                  notify[c].owner, [c |-> c, value |-> <<value>>], FALSE)

\* project.behavior_pack and project.resource_pack
ProjectPack ==
    /\ steps < MaxSteps
    /\ \E pk \in Packs : Commit(Project_pack(Cur, pk), "project_pack", 0, <<pk>>, FALSE)

\* The file of an accessed pack is constructed: F(filepath=..., pack=pk)
ProjectFile ==
    /\ steps < MaxSteps
    /\ \E pk \in Packs :
           /\ project.cached[pk]
           /\ \A r \in AllRes : filepath[r] # PackFile(pk)
           /\ Commit(JsonFileResourceIn(Cur, pk, PackFile(pk), NO_ARGUMENT),
                     "project_file", 0, <<pk>>, FALSE)

\* project.save(force)
ProjectSave ==
    /\ steps < MaxSteps
    /\ \E force \in BOOLEAN :
           Commit(Project_save(Cur, force), "project_save", 0, <<>>, force)

\* The calls on the language file: keys that the file holds and a new one,
\* a plain value and one that holds the comment sign.
LangKeys == {<<"k">>, <<"n">>}
LangValues == {<<"z">>, <<"z", "#">>}

\* language_file.add_translation(Translation(key, value), overwrite=b)
LangAdd ==
    /\ steps < MaxSteps
    /\ \E key \in LangKeys : \E value \in LangValues : \E b \in BOOLEAN :
           Commit(add_translation(Cur, Translation(key, value, NoneText), b),
                  "add_translation", 0, Translation(key, value, NoneText), b)

\* language_file.get_translation(key)
LangGet ==
    /\ steps < MaxSteps
    /\ \E key \in LangKeys :
           Commit(get_translation(Cur, key), "get_translation", 0, key, FALSE)

\* language_file.translations
LangTranslations ==
    /\ steps < MaxSteps
    /\ Commit(translations(Cur), "translations", 0, <<>>, FALSE)

\* language_file.save(force)
LangSave ==
    /\ steps < MaxSteps
    /\ \E force \in BOOLEAN :
           Commit(Resource_save(Cur, force), "lang_save", 0, <<>>, force)

\* Identifier strings and path strings a caller may assign: "z" and "z/w";
\* "p", "groups/q" and "groups/a/q".
IdStrings == {<<"z">>, <<"z", "w">>}
PathStrings == {<<"p">>, <<"groups", "q">>, <<"groups", "a", "q">>}

\* s.id = x, followed by a read of s.id
AssignId ==
    \E r \in SubRes : \E x \in IdStrings :
        Commit(id_getter(id_setter(Cur, r, x), r), "assign_id", r, x, FALSE)

\* s.json_path = p, followed by a read of s.id
AssignJsonPath ==
    \E r \in SubRes : \E p \in PathStrings :
        Commit(id_getter(json_path_setter(Cur, r, p), r), "assign_json_path", r, p, FALSE)

\* s.id = x, for two identifiers
RenameIds == {"z", "w"}
Rename ==
    \E r \in SubRes : \E x \in RenameIds :
        CommitRename(id_setter(Cur, r, <<x>>), "rename", r, <<x>>, FALSE)

\* f.save() on the enclosing file
SaveFile ==
    \E f \in AllRes \ SubRes :
        CommitRename(save(Cur, f, FALSE), "save_file", f, <<>>, FALSE)

\* s.id
ReadId ==
    \E r \in SubRes : Commit(id_getter(Cur, r), "read_id", r, <<>>, FALSE)

\* The JSON-path calls, with the paths and defaults a caller may pass: an
\* existing field, an absent path below an absent container, the container
\* of a group's components.
JsonPaths == {<<"v">>, <<"p", "q">>, <<"components">>}
Defaults == {Scalar(7), None, NO_ARGUMENT}

\* r.set_jsonpath(p, 1, overwrite=b)
SetJsonpathOverwrite ==
    \E r \in AllRes : \E p \in JsonPaths : \E b \in BOOLEAN :
        Commit(set_jsonpath(Cur, r, p, Scalar(1), b), "set_jsonpath_overwrite", r, p, b)

\* r.delete_jsonpath(p)
DeleteJsonpath ==
    \E r \in AllRes : \E p \in JsonPaths :
        Commit(delete_jsonpath(Cur, r, p), "delete_jsonpath", r, p, FALSE)

\* r.pop_jsonpath(p) and r.pop_jsonpath(p, default=d)
PopJsonpath ==
    \E r \in AllRes : \E p \in JsonPaths : \E d \in Defaults :
        CommitCall(pop_jsonpath(Cur, r, p, d), "pop_jsonpath", r, p, FALSE, d)

\* r.get_jsonpath(p) and r.get_jsonpath(p, default=d)
GetJsonpath ==
    \E r \in AllRes : \E p \in JsonPaths : \E d \in Defaults :
        CommitCall(get_jsonpath_call(Cur, r, p, d), "get_jsonpath", r, p, FALSE, d)

\* r.jsonpath_exists(p)
JsonpathExists ==
    \E r \in AllRes : \E p \in JsonPaths :
        Commit(jsonpath_exists_call(Cur, r, p), "jsonpath_exists", r, p, FALSE)

\* r.set_jsonpath("tags", [0, 1])
TagList == List(<<Scalar(0), Scalar(1)>>)
SetJsonpathList ==
    \E r \in AllRes :
        Commit(set_jsonpath(Cur, r, <<"tags">>, TagList, TRUE),
               "set_jsonpath_list", r, <<"tags">>, TRUE)

\* list(r.get_data_at(p)): a field, an absent path, the containers of the
\* groups and of the components, a list.
DataPaths == JsonPaths \cup {<<"groups">>, <<"tags">>}
GetDataAt ==
    \E r \in AllRes : \E p \in DataPaths :
        Commit(get_data_at_call(Cur, r, p), "get_data_at", r, p, FALSE)

\* The pack-level calls.  A call that is the first to access the pack's
\* collection runs glob, whose order is not determined.
NewFiles == {"f3.json"}
ChildGetIds == {"a", "b"}

\* pack.<plural>
PackCollection ==
    \E order \in GlobOrders(Cur) :
        LET S1 == ResourceDefinition(Cur, order)
        IN Commit([S1 EXCEPT !.lst = S1.pack_cache.list], "pack_collection", 0, <<>>, FALSE)

\* pack.add_<kind>(name, {"groups": {}})
PackAdd ==
    \E order \in GlobOrders(Cur) : \E name \in NewFiles :
        LET n == Len(heap) + 1
            S1 == [Cur EXCEPT !.heap = @ \o << <<<<"groups", Ref(n + 1)>>>>, <<>> >>]
        IN Commit(ResourceAdder(S1, order, name, Ref(n)), "pack_add", 0, <<name>>, FALSE)

\* pack.<child plural>
PackChildren ==
    \E order \in GlobOrders(Cur) :
        Commit(JsonChildResource(Cur, order), "pack_children", 0, <<>>, FALSE)

\* pack.get_<child>(x)
PackChildGet ==
    \E order \in GlobOrders(Cur) : \E x \in ChildGetIds :
        Commit(ChildGetter(Cur, order, x), "pack_child_get", 0, <<x>>, FALSE)

Next ==
    \/ Collection \/ Get \/ SetJsonpath \/ SetId \/ SetJsonPath \/ SetData
    \/ DataSetItem \/ DataDelItem \/ Add \/ Save \/ PackSave \/ Delete
    \/ SetOutputDirectory

\* The calls made through the resource API only: no write goes straight to a
\* data container.
NextApi ==
    \/ Collection \/ Get \/ SetJsonpath \/ SetId \/ SetJsonPath \/ SetData
    \/ Add \/ Save \/ PackSave \/ Delete \/ SetOutputDirectory

\* The JSON-path calls only.
NextJson ==
    \/ SetJsonpathOverwrite \/ DeleteJsonpath \/ PopJsonpath \/ GetJsonpath
    \/ JsonpathExists \/ SetJsonpathList \/ GetDataAt

\* The pack-level calls, add_<kind> on a file or a group, and the saves.
NextPack ==
    \/ PackCollection \/ PackAdd \/ PackChildren \/ PackChildGet
    \/ Add \/ Save \/ PackSave

\* The calls that mutate no resource: reads, the choice of the output root,
\* and saves.
NextRound == Collection \/ Get \/ SetOutputDirectory \/ Save \/ PackSave

\* With-blocks among reads, writes, saves and the choice of the output root.
NextWith ==
    \/ With \/ Collection \/ SetJsonpath \/ SetId \/ Save \/ SetOutputDirectory

\* The calls on Notify Containers, and the saves that clear flags.
NextNotify ==
    \/ NotifySetItem \/ NotifyDelItem \/ NotifyAppend \/ NotifyExtend \/ Save

\* The calls on a project and on the files of its packs.
NextProject ==
    \/ ProjectPack \/ ProjectFile \/ ProjectSave \/ SetJsonpath \/ Collection \/ Save

\* The calls on a language file.
NextLang == LangAdd \/ LangGet \/ LangTranslations \/ LangSave

\* Assignments to id and json_path, and reads of id and of collections.
NextId == AssignId \/ AssignJsonPath \/ ReadId \/ Collection

\* Accesses to the collections of the pack and of its resources, between
\* calls that change the documents, the resources and the filesystem.
NextAccess ==
    \/ PackCollection \/ PackAdd \/ Collection \/ Get \/ Add \/ Delete
    \/ SetJsonpath \/ Save \/ PackSave

\* Construction of, and writes of raw data to, Notify Containers.
NextNested == NestedConstruct \/ NestedSetItem \/ NestedAppend \/ NestedExtend

\* Collection accesses, additions by id and data or by resource, renames,
\* saves and deletes.
NextAdd == Collection \/ Add \/ AddResource \/ SetId \/ Save \/ Delete

\* Renames of sub-resources and saves of the enclosing file.
NextRename == Rename \/ SaveFile

Spec == Init /\ [][Next]_vars
SpecFloating == InitFloating /\ [][Next]_vars
SpecApi == Init /\ [][NextApi]_vars
SpecJson == InitJson /\ [][NextJson]_vars
SpecPack == InitPack /\ [][NextPack]_vars
SpecRound == InitRound /\ [][NextRound]_vars
SpecWith == Init /\ [][NextWith]_vars
SpecNotify == InitNotify /\ [][NextNotify]_vars
SpecProject == InitProject /\ [][NextProject]_vars
SpecLang == InitLang /\ [][NextLang]_vars
SpecId == Init /\ [][NextId]_vars
SpecAccess == InitPack /\ [][NextAccess]_vars
SpecNested == InitNotify /\ [][NextNested]_vars
SpecAdd == Init /\ [][NextAdd]_vars
SpecRename == Init /\ [][NextRename]_vars

\* ------------------------------------------------------ claims: vocabulary

ProgramVars == <<kind, pack, parent, dirty, deleted, resources, data, json_path,
                 original_json_path, cache, filepath, heap, fs, pack_resources,
                 pack_cache, output_directory, notify, project, lang>>

Files == {r \in AllRes : kind[r] = "file"}

\* The ancestors of r, up to and including its file.
RECURSIVE Ancestors(_, _)
Ancestors(S, r) ==
    IF S.kind[r] = "file" THEN {}
    ELSE {S.parent[r]} \cup Ancestors(S, S.parent[r])

\* The file at the top of r's chain of parents.
RECURSIVE FileOfRes(_, _)
FileOfRes(S, r) == IF S.kind[r] = "file" THEN r ELSE FileOfRes(S, S.parent[r])

\* r is reached from its file through registered, non-deleted resources.
RECURSIVE Live(_, _)
Live(S, r) ==
    /\ ~S.deleted[r]
    /\ \/ S.kind[r] = "file"
       \/ r \in Range(S.resources[S.parent[r]]) /\ Live(S, S.parent[r])

\* The address of r in its file's document: the paths of its chain, joined.
RECURSIVE AbsPath(_, _)
AbsPath(S, r) ==
    IF S.kind[r] = "file" THEN <<>> ELSE AbsPath(S, S.parent[r]) \o S.json_path[r]

\* The document of file f at the pack's output location.
Persisted(S, f) == S.fs[S.output_directory][S.filepath[f]]

AllClean == \A r \in AllRes : ~dirty[r]
LoadedDoc == json_dump(LoadedHeap, Ref(1))

\* ------------------------------------------------------------------ claims

\* C1: whenever a registered, non-deleted descendant sub-resource of an
\* attached file f holds data that differs from what f's written document
\* holds at its address, f.dirty is true (so that a non-forced f.save()
\* persists it).  Stated for a pack that writes where it reads.
C1_UnsavedEditImpliesFileDirty ==
    \A s \in SubRes :
        LET f == FileOfRes(Cur, s)
        IN (/\ pack[f] = 1 /\ output_directory = input_path
            /\ Live(Cur, s)
            /\ SubDoc(Persisted(Cur, f).doc, AbsPath(Cur, s)) # json_dump(heap, data[s]))
           => dirty[f]

\* C2: a write to the data container of a sub-resource (item assignment or
\* deletion) leaves the sub-resource and every ancestor up to the file dirty.
C2_DataWriteDirtiesChain ==
    [][(last'.op \in {"data_setitem", "data_delitem"} /\ kind[last'.r] # "file")
        => \A a \in {last'.r} \cup Ancestors(Cur', last'.r) : dirty'[a]]_vars

\* C3: from a tree in which every resource is clean, a mutating call through
\* the resource API on r (set_jsonpath, assignment to id, json_path or data,
\* add_<kind>) leaves r and every ancestor of r up to the file dirty.
MutatingCalls == {"set_jsonpath", "id", "json_path", "data", "add"}
C4_SecondSaveIsNoOp ==
    [][(/\ last.op = "save" /\ ~last.force /\ last.raised = "none"
        /\ last'.op = "save" /\ last'.r = last.r /\ ~last'.force)
        => (last'.log = <<>> /\ last'.raised = "none" /\ UNCHANGED ProgramVars)]_vars

\* A file was edited, saved (the edit is on disk) and saved again, and the
\* second save did nothing.
C4_Witness ==
    /\ steps = 3 /\ last.op = "save" /\ ~last.force /\ last.log = <<>>
    /\ last.before.op = "save" /\ last.before.r = last.r /\ ~last.before.force
    /\ last.before.raised = "none"
    /\ kind[last.r] = "file" /\ ~dirty[last.r]
    /\ fs[input_path][filepath[last.r]].doc # LoadedDoc

\* C5: save(force) on a file without a pack raises FloatingAssetError for
\* every force and every dirty flag, before any child is saved and before
\* any persistence action, and changes nothing.
C5_FloatingSaveRaises ==
    [][(last'.op = "save" /\ kind[last'.r] = "file" /\ pack[last'.r] = 0)
        => (/\ last'.raised = "FloatingAssetError" /\ last'.log = <<>>
            /\ UNCHANGED ProgramVars)]_vars

\* A clean floating file with a registered child was saved without force
\* and raised.
C5_Witness ==
    /\ last.op = "save" /\ ~last.force /\ last.raised = "FloatingAssetError"
    /\ kind[last.r] = "file" /\ pack[last.r] = 0 /\ ~dirty[last.r]
    /\ resources[last.r] # <<>>

\* The dict objects that belong to the document rooted at value v.
RECURSIVE Reach(_, _)
Reach(h, v) ==
    IF ~IsRef(v) THEN {}
    ELSE {v[2]} \cup UNION {Reach(h, e[2]) : e \in Range(h[v[2]])}

\* C6: after the id of a registered sub-resource s is changed from a to b
\* and the enclosing file is saved, the parent's document holds s's current
\* data at prefix/b and nothing at prefix/a; a following get_<kind>("a") on
\* the parent fails with AssetNotFoundError.
C6_RenameSaveLookup ==
    [][/\ (/\ last.op = "id" /\ last.raised = "none" /\ Live(Cur, last.r)
           /\ json_path[last.r] # last.path0
           /\ last'.op = "save" /\ last'.r = FileOfRes(Cur, last.r)
           /\ pack[last'.r] = 1 /\ last'.raised = "none")
          => LET s == last.r
                 par == parent[s]
             IN /\ json_dump(heap', get_jsonpath(Cur', par, json_path'[s]))
                     = json_dump(heap', data'[s])
                /\ ~jsonpath_exists(Cur', par, last.path0)
       /\ (/\ last.before.op = "id" /\ last.before.raised = "none"
           /\ Live(Cur, last.before.r)
           /\ json_path[last.before.r] # last.before.path0
           /\ last.op = "save" /\ last.r = FileOfRes(Cur, last.before.r)
           /\ last.raised = "none"
           /\ last'.op = "get" /\ last'.r = parent[last.before.r]
           /\ last'.arg = <<last.before.path0[Len(last.before.path0)]>>)
          => last'.raised = "AssetNotFoundError"]_vars

\* C7: when delete() on a registered sub-resource s is followed by a save of
\* the enclosing file, the written document holds no entry at s's path and
\* none of the data of s or of the children s had registered; the entries
\* of the siblings of s and the other content of its parent are still there.
C7_DeleteThenSaveRemovesEntries ==
    [][(/\ last.op = "delete" /\ last.raised = "none" /\ kind[last.r] # "file"
        /\ Live(Cur, parent[last.r])
        /\ last'.op = "save" /\ last'.r = FileOfRes(Cur, last.r)
        /\ pack[last'.r] = 1 /\ last'.raised = "none")
        => LET s == last.r
               par == parent[s]
               f == last'.r
               P == Persisted(Cur', f).doc
               base == AbsPath(Cur', par)
           IN /\ P = json_dump(heap', data'[f])
              /\ ~HasEntry(P, base \o last.path0)
              /\ \A t \in {s} \cup Range(last.children0) :
                     data[t][2] \notin Reach(heap', data'[f])
              /\ \A t \in Range(resources[par]) :
                     jsonpath_exists(Cur, par, json_path[t])
                         => HasEntry(P, AbsPath(Cur', t))
              /\ \A fld \in Fields :
                     jsonpath_exists(Cur, par, <<fld>>)
                         => HasEntry(P, base \o <<fld>>)]_vars

\* C8: when delete() on a file is followed by a non-forced save of its pack,
\* and the pack writes where it reads, the file no longer exists.
C8_DeletedFileIsRemoved ==
    [][(/\ last.op = "delete" /\ last.raised = "none" /\ kind[last.r] = "file"
        /\ pack[last.r] = 1 /\ output_directory = input_path
        /\ last'.op = "pack_save" /\ ~last'.force)
        => ~fs'[input_path][filepath[last.r]].exists]_vars

C10_DeletionIsTerminal ==
    [][\A r \in AllRes :
        deleted[r] =>
          /\ deleted'[r]
          /\ kind[r] = "file" =>
                \A root \in Roots :
                    fs'[root][filepath[r]] # fs[root][filepath[r]]
                        => ~fs'[root][filepath[r]].exists
          /\ kind[r] # "file" =>
                LET f == FileOfRes(Cur, r)
                IN (<<"_save", f>> \in Range(last'.log) /\ ~deleted'[f]
                    /\ last'.raised = "none")
                   => data[r][2] \notin Reach(heap', data'[f])]_vars

\* C11: once a sub-resource s is deleted, a read of its parent's collection
\* does not contain s and the parent's get_<kind> does not return s.
C11_DeletedNotEnumerated ==
    [][\A s \in SubRes :
        deleted[s] =>
          /\ (last'.op = "collection" /\ last'.r = parent[s])
                => s \notin Range(cache'[parent[s]].list)
          /\ (last'.op = "get" /\ last'.r = parent[s]) => last'.ret # s]_vars

\* The entries of r's kind that r's in-memory document holds.
Container(S, r) == get_data_at(S, r, ChildJsonpath(S.kind[r]))

\* The same as a document; empty when r's document has no such container.
ContainerDoc(S, r) ==
    IF jsonpath_exists(S, r, ChildJsonpath(S.kind[r]))
    THEN json_dump(S.heap, get_jsonpath(S, r, ChildJsonpath(S.kind[r])))
    ELSE {}

\* C12: add_<kind>(id, data) with an id that r's document does not hold yet,
\* on a parent whose document holds n entries of the kind, leaves r's
\* collection with exactly n + 1 elements, exactly one of which has the new
\* id, the given data and parent r.
C12_AddGrowsCollectionByOne ==
    [][(/\ last'.op = "add" /\ last'.raised = "none"
        /\ ~jsonpath_exists(Cur, last'.r, ChildJsonpath(kind[last'.r]) \o last'.arg))
        => LET r == last'.r
               lst == cache'[r].list
           IN /\ Len(lst) = Len(Container(Cur, r)) + 1
              /\ Cardinality({i \in DOMAIN lst :
                                 /\ id(Cur', lst[i]) = last'.arg[1]
                                 /\ data'[lst[i]] = Ref(Len(heap) + 1)
                                 /\ parent'[lst[i]] = r}) = 1]_vars

\* C13: after add_<kind>(id, data) on a live parent r of a loaded file, with
\* no other resource holding a flagged edit, a non-forced save of the pack
\* leaves in the output document, at r's address, the container of the kind
\* as r's document holds it: the previous entries and id mapped to data.
C13_AddThenPackSavePersists ==
    [][/\ (last'.op = "add" /\ last'.raised = "none")
          => LET r == last'.r
                 p == ChildJsonpath(kind[r])
                 before == ContainerDoc(Cur, r)
                 after == ContainerDoc(Cur', r)
             IN /\ SubDoc(after, last'.arg) = json_dump(heap', Ref(Len(heap) + 1))
                /\ \A e \in after : IsPrefix(last'.arg, e[1]) \/ e \in before
                /\ \A e \in before :
                       IsPrefix(last'.arg, e[1]) \/ e \in after \/ e[2] = EmptyDictLeaf
       /\ (/\ last.op = "add" /\ last.raised = "none" /\ Live(Cur, last.r)
           /\ pack[last.r] = 1 /\ ~deleted[FileOfRes(Cur, last.r)]
           /\ \A o \in AllRes \ ({last.r} \cup Ancestors(Cur, last.r)) : ~dirty[o]
           /\ last'.op = "pack_save" /\ ~last'.force)
          => LET r == last.r
                 f == FileOfRes(Cur, r)
                 p == ChildJsonpath(kind[r])
             IN /\ last'.raised = "none"
                /\ SubDoc(Persisted(Cur', f).doc, AbsPath(Cur', r) \o p)
                     = ContainerDoc(Cur, r)]_vars

\* A group was added to a loaded file that held one group, the pack was
\* saved without force, and the file on disk holds both groups.
C13_Witness ==
    /\ last.op = "pack_save" /\ ~last.force /\ last.raised = "none"
    /\ last.before.op = "add" /\ last.before.raised = "none"
    /\ kind[last.before.r] = "file" /\ ~deleted[last.before.r]
    /\ output_directory = input_path
    /\ LET doc == fs[input_path][filepath[last.before.r]].doc
       IN /\ HasEntry(doc, <<"groups", "a", "v">>)
          /\ <<<<"groups", "n", "v">>, Scalar(1)>> \in doc

\* How often x occurs in a list.
Count(l, x) == Cardinality({i \in DOMAIN l : l[i] = x})

\* C14: the file asset that the pack's add_<kind>(filepath, data) returns
\* is dirty, is in the pack's collection and in the pack's registered
\* resources exactly once, and the next non-forced save of the pack writes
\* its data at <output root>/<base path>/<filepath>.
C14_NewFileIsPersisted ==
    [][/\ (last'.op = "pack_add" /\ last'.raised = "none")
          => LET n == last'.ret
             IN /\ filepath'[n] = base_filepath \o "/" \o last'.arg[1]
                /\ Count(pack_cache'.list, n) = 1
                /\ Count(pack_resources', n) = 1
                /\ dirty'[n]
       /\ (/\ last.op = "pack_add" /\ last.raised = "none"
           /\ last'.op = "pack_save" /\ ~last'.force)
          => LET n == last.ret
             IN fs'[output_directory][filepath[n]]
                    = FileOf(json_dump(heap, data[n]))]_vars

RECURSIVE Flat(_, _, _)
Flat(S, files, i) ==
    IF i > Len(files) THEN <<>>
    ELSE S.cache[files[i]].list \o Flat(S, files, i + 1)

\* C16: the pack-level accessor of the child kind returns the child
\* collections of all files of the pack's collection joined in order, as
\* they are at the time of the call; the pack-level get_<child>(x) returns
\* the first element of that list whose id is x, and None only when no
\* file of the collection has such a child.
C16_PackChildrenAndLookup ==
    [][/\ last'.op = "pack_children"
          => /\ last'.raised = "none"
             /\ last'.lst = Flat(Cur', pack_cache'.list, 1)
       /\ last'.op = "pack_child_get"
          => LET All == JsonChildResource(Cur', <<>>)
                 flat == All.lst
                 hits == {i \in DOMAIN flat : id(All, flat[i]) = last'.arg[1]}
             IN /\ last'.raised = "none"
                /\ hits = {} => last'.ret = 0
                /\ hits # {} => last'.ret = flat[CHOOSE i \in hits :
                                                    \A j \in hits : i <= j]]_vars

ProperPrefixes(p) == {SubSeq(p, 1, n) : n \in 1..(Len(p) - 1)}

C18_DeleteJsonpathIdempotent ==
    [][last'.op = "delete_jsonpath"
        => LET r == last'.r
               p == last'.arg
           IN /\ last'.raised = "none"
              /\ ~jsonpath_exists(Cur, r, p) => UNCHANGED ProgramVars
              /\ jsonpath_exists(Cur, r, p)
                    => /\ dirty'[r]
                       /\ ~jsonpath_exists(Cur', r, p)
                       /\ \A e \in json_dump(heap, data[r]) :
                              ~IsPrefix(p, e[1]) => e \in json_dump(heap', data'[r])
                       /\ \A e \in json_dump(heap', data'[r]) :
                              e \in json_dump(heap, data[r]) \/ e[2] = EmptyDictLeaf
              /\ (last.op = "delete_jsonpath" /\ last.r = r /\ last.arg = p)
                    => UNCHANGED ProgramVars]_vars

\* The same existing entry was deleted twice in a row: it is absent and the
\* resource is dirty.
C18_Witness ==
    /\ last.op = "delete_jsonpath" /\ last.before.op = "delete_jsonpath"
    /\ last.before.r = last.r /\ last.arg = <<"v">> /\ steps = 2
    /\ ~jsonpath_exists(Cur, last.r, <<"v">>)
    /\ dirty[last.r]

\* C19: pop_jsonpath(path, default) returns or raises what
\* get_jsonpath(path, default) does and leaves the data and the dirty flags
\* as get_jsonpath followed by delete_jsonpath(path) leaves them; on an
\* absent path it changes nothing.
C19_PopIsGetThenDelete ==
    [][last'.op = "pop_jsonpath"
        => LET r == last'.r
               p == last'.arg
               G == get_jsonpath_call(Cur, r, p, last'.default)
               D == IF G.raised = "none" THEN delete_jsonpath(G, r, p) ELSE G
           IN /\ last'.raised = G.raised
              /\ last'.val = G.val
              /\ heap' = D.heap /\ data' = D.data /\ dirty' = D.dirty
              /\ ~jsonpath_exists(Cur, r, p) => UNCHANGED ProgramVars]_vars

\* C20: get_jsonpath returns the value at the path when it is there, else
\* the default it was given, whatever it is, else raises AssetNotFoundError;
\* jsonpath_exists is true exactly when the path is there; neither changes
\* any state.
C20_GetJsonpathReads ==
    [][/\ last'.op = "get_jsonpath"
          => LET v == get_jsonpath(Cur, last'.r, last'.arg)
             IN /\ v # NotFound => (last'.raised = "none" /\ last'.val = v)
                /\ (v = NotFound /\ last'.default # NO_ARGUMENT)
                      => (last'.raised = "none" /\ last'.val = last'.default)
                /\ (v = NotFound /\ last'.default = NO_ARGUMENT)
                      => last'.raised = "AssetNotFoundError"
                /\ UNCHANGED ProgramVars
       /\ last'.op = "jsonpath_exists"
          => /\ last'.raised = "none"
             /\ last'.val = Bool(get_jsonpath_call(Cur, last'.r, last'.arg,
                                                    NO_ARGUMENT).raised = "none")
             /\ UNCHANGED ProgramVars]_vars

\* get_jsonpath on an absent path with default None returned None.
C20_Witness ==
    /\ last.op = "get_jsonpath" /\ last.default = None /\ last.val = None
    /\ last.raised = "none" /\ ~jsonpath_exists(Cur, last.r, last.arg)

\* C21: get_data_at(path) yields, for a dict of k entries, exactly k pairs
\* <<path/key, value>> in key order; for a list of n elements, n pairs
\* <<path/[i], element>> in index order; nothing, without an error, for a
\* path that is not there; it raises AmbiguousAssetError for any other
\* value; and it changes no data and no dirty flag.
C21_GetDataAtEnumerates ==
    [][last'.op = "get_data_at"
        => LET p == last'.arg
               v == get_jsonpath(Cur, last'.r, p)
               out == last'.lst
           IN /\ IsRef(v) =>
                    /\ last'.raised = "none"
                    /\ Len(out) = Len(heap[v[2]])
                    /\ \A i \in DOMAIN out :
                           out[i] = <<p \o <<heap[v[2]][i][1]>>, heap[v[2]][i][2]>>
              /\ IsList(v) =>
                    /\ last'.raised = "none"
                    /\ Len(out) = Len(v[2])
                    /\ \A i \in DOMAIN out :
                           out[i] = <<p \o <<IndexSegment(i)>>, v[2][i]>>
              /\ v = NotFound => (last'.raised = "none" /\ out = <<>>)
              /\ (v # NotFound /\ ~IsRef(v) /\ ~IsList(v))
                    => last'.raised = "AmbiguousAssetError"
              /\ UNCHANGED ProgramVars]_vars

\* The two components of a group were enumerated in key order, x before y.
C21_Witness ==
    /\ last.op = "get_data_at" /\ last.raised = "none"
    /\ kind[last.r] = "group" /\ last.arg = <<"components">>
    /\ Len(last.lst) = 2
    /\ last.lst[1][1] = <<"components", "x">>
    /\ last.lst[2][1] = <<"components", "y">>

\* C22: a document that was loaded and not mutated, saved with force to an
\* output root that holds no file yet, is written with exactly the keys and
\* values it was loaded with.
C22_RoundTrip ==
    [][(/\ last'.op = "save" /\ last'.force /\ kind[last'.r] = "file"
        /\ output_directory # input_path
        /\ \A fp \in FilePaths : ~fs[output_directory][fp].exists)
        => LET f == last'.r
           IN /\ last'.raised = "none"
              /\ fs'[output_directory][filepath[f]]
                    = FileOf(json_dump(heap, data[f]))
              /\ json_dump(heap, data[f]) \in {json_dump(h, Ref(1)) : h \in RoundDocs}]_vars

\* C23: leaving a with-block on r calls r.save() without force exactly once,
\* also when the block ends with an exception (which then reaches the
\* caller); a live attached file that the block wrote to is dirty inside
\* the block and clean after it, and the document at the output location
\* holds the edit.
C23_WithBlockSaves ==
    [][last'.op = "with"
        => LET r == last'.r
               exc == last'.default = Bool(TRUE)
           IN /\ Count(last'.log, <<"__exit__", r>>) = 1
              /\ Count(last'.log, <<"save", r>>) = 1
              /\ last'.val = Bool(TRUE)
              /\ ~dirty'[r]
              /\ (kind[r] = "file" /\ ~deleted[r])
                    => /\ Count(last'.log, <<"_save", r>>) = 1
                       /\ last'.raised = (IF exc THEN "BlockError" ELSE "none")
                       /\ Persisted(Cur', r) = FileOf(clean_data(heap', data'[r]))
                       /\ <<last'.arg, Scalar(1)>> \in Persisted(Cur', r).doc]_vars

\* A with-block on a clean file wrote a field and ended with an exception:
\* the file is clean and the field is on disk.
C23_Witness ==
    /\ last.op = "with" /\ last.default = Bool(TRUE) /\ last.raised = "BlockError"
    /\ steps = 1 /\ kind[last.r] = "file" /\ ~dirty[last.r]
    /\ <<<<"v">>, Scalar(1)>> \in fs[input_path][filepath[last.r]].doc

\* The items of container c with key k (a key or a position) holding value.
Stored(items, cls, k, value) ==
    IF cls = "dict" THEN DictSet(items, k, value) ELSE [items EXCEPT ![k] = value]
Holds(items, cls, k) ==
    IF cls = "dict" THEN Has(items, k) ELSE k \in DOMAIN items
ValueAt(items, cls, k) ==
    IF cls = "dict" THEN Lookup(items, k) ELSE items[k]

\* C24: on a Notify Container with an owner, an assignment to a key or
\* index that is there leaves the owner dirty when the new value differs
\* from the stored one and leaves every dirty flag as it was when it is
\* equal; item deletion, append and extend leave the owner dirty whatever
\* the values; a container without owner changes its items in the same way,
\* raises nothing and changes no flag.
C24_NotifyContainerDirties ==
    [][/\ (last'.op = "notify_setitem"
           /\ Holds(notify[last'.arg.c].items, notify[last'.arg.c].cls, last'.arg.key))
          => LET c == notify[last'.arg.c]
                 differs == ValueAt(c.items, c.cls, last'.arg.key) # last'.arg.value
             IN /\ last'.raised = "none"
                /\ notify'[last'.arg.c].items
                      = Stored(c.items, c.cls, last'.arg.key, last'.arg.value)
                /\ (c.owner # 0 /\ differs) => dirty'[c.owner]
                /\ (c.owner = 0 \/ ~differs) => dirty' = dirty
       /\ last'.op = "notify_delitem"
          => LET c == notify[last'.arg.c]
             IN /\ c.owner # 0 => dirty'[c.owner]
                /\ c.owner = 0 => dirty' = dirty
                /\ Holds(c.items, c.cls, last'.arg.key)
                      => /\ last'.raised = "none"
                         /\ Len(notify'[last'.arg.c].items) = Len(c.items) - 1
                         /\ c.cls = "dict"
                               => ~Has(notify'[last'.arg.c].items, last'.arg.key)
       /\ last'.op \in {"notify_append", "notify_extend"}
          => LET c == notify[last'.arg.c]
             IN /\ last'.raised = "none"
                /\ notify'[last'.arg.c].items = c.items \o last'.arg.value
                /\ c.owner # 0 => dirty'[c.owner]
                /\ c.owner = 0 => dirty' = dirty]_vars

\* The owner was saved clean, and an assignment of the value that is
\* already stored left it clean.
C24_Witness ==
    /\ last.op = "notify_setitem" /\ last.r # 0 /\ ~dirty[last.r]
    /\ last.before.op = "save" /\ last.before.r = last.r
    /\ last.raised = "none"
    /\ notify[last.arg.c].cls = "dict"
    /\ Lookup(notify[last.arg.c].items, last.arg.key) = last.arg.value

\* C25: Project.save(force) raises nothing and leaves the state that saving
\* every resource registered to the behavior pack and then every resource
\* registered to the resource pack leaves, whichever of the two packs were
\* accessed before; and no pack is constructed more than once.
C25_ProjectSavesBothPacks ==
    [][/\ \A pk \in Packs : project'.built[pk] <= 1
       /\ last'.op = "project_save"
          => LET E == Pack_save_of(Pack_save_of(Cur, behavior_pack, last'.force, 1),
                                   resource_pack, last'.force, 1)
             IN /\ last'.raised = "none"
                /\ dirty' = E.dirty /\ fs' = E.fs /\ heap' = E.heap]_vars

\* The translations of a list that have the key.
WithKey(l, key) == SelectSeq(l, LAMBDA t : t.key = key)

\* C26: add_translation(t, overwrite) on a key that is there, with
\* overwrite off, returns False and changes neither the translations nor
\* the dirty flag; in every other case it returns True, leaves the file
\* dirty and holding exactly one translation for t.key, with t's value, so
\* that the list grows by one only for a new key; and after a save and a
\* reload get_translation(t.key) has t's value.
C26_AddTranslation ==
    [][last'.op = "add_translation"
        => LET t == last'.arg
               before == translations(Cur).lang.translations
               after == lang'.translations
               had == WithKey(before, t.key) # <<>>
               reloaded == ReadLines(Resource_save(Cur', FALSE).lang.file, 1)
           IN /\ last'.raised = "none"
              /\ (had /\ ~last'.force)
                    => /\ last'.val = Bool(FALSE)
                       /\ after = before /\ lang'.dirty = lang.dirty
              /\ ~(had /\ ~last'.force)
                    => /\ last'.val = Bool(TRUE)
                       /\ lang'.dirty
                       /\ Len(WithKey(after, t.key)) = 1
                       /\ WithKey(after, t.key)[1].value = t.value
                       /\ Len(after) = Len(before) + (IF had THEN 0 ELSE 1)
                       /\ WithKey(reloaded, t.key) # <<>>
                       /\ WithKey(reloaded, t.key)[1].value = t.value]_vars

\* C27: a read of s.id gives the last segment of s's path, in every state;
\* after s.id = x the id read is x and the path is the former path with its
\* last segment replaced by x and nothing else changed; after
\* s.json_path = p the id read is the last segment of p.
C27_IdIsLastSegment ==
    [][/\ last'.op \in {"read_id", "assign_id", "assign_json_path"}
          => /\ last'.raised = "none"
             /\ last'.val = <<json_path'[last'.r][Len(json_path'[last'.r])]>>
       /\ last'.op = "assign_id"
          => LET old == json_path[last'.r]
                 new == json_path'[last'.r]
             IN /\ last'.val = last'.arg
                /\ Len(new) = Len(old)
                /\ SubSeq(new, 1, Len(new) - 1) = SubSeq(old, 1, Len(old) - 1)
                /\ <<new[Len(new)]>> = last'.arg
       /\ last'.op = "assign_json_path"
          => /\ json_path'[last'.r] = last'.arg
             /\ last'.val = <<last'.arg[Len(last'.arg)]>>]_vars

\* C28: the dirty flag of a resource goes from true to false only in a call
\* in which that resource's own save() ran its persistence action; no call
\* on another resource, such as the save() of a child, clears it.
C28_DirtyClearedOnlyByOwnSave ==
    [][\A r \in AllRes :
        (dirty[r] /\ ~dirty'[r])
            => /\ last'.op \in {"save", "pack_save"}
               /\ <<"save", r>> \in Range(last'.log)
               /\ <<"_save", r>> \in Range(last'.log)]_vars

\* The position of the first occurrence of e in a log, 0 when there is none.
Pos(log, e) ==
    IF e \in Range(log) THEN CHOOSE i \in DOMAIN log : log[i] = e /\ \A j \in DOMAIN log : log[j] = e => i <= j
    ELSE 0

\* C29: when r.save(force) proceeds, every registered child of r that is
\* dirty or forced is saved, between the start of r's save and r's
\* persistence action; after the call r holds, at the path of each child
\* that was saved, that child's data; and r's flag is still what it was
\* when the children have been saved and the persistence action starts.
C29_ChildrenSavedFirst ==
    [][(last'.op = "save" /\ last'.raised = "none"
        /\ <<"save", last'.r>> \in Range(last'.log))
        => LET r == last'.r
               log == last'.log
               children == Range(resources[r])
               AtPersist == save_children(Cur, r, last'.force, 1)
           IN /\ \A c \in children :
                     (dirty[c] \/ last'.force)
                        => /\ Pos(log, <<"save", c>>) > Pos(log, <<"save", r>>)
                           /\ Pos(log, <<"_save", c>>) > Pos(log, <<"save", c>>)
                           /\ Pos(log, <<"_save", c>>) < Pos(log, <<"_save", r>>)
              /\ \A c \in children :
                     (<<"_save", c>> \in Range(log) /\ ~deleted[c] /\ ~deleted[r])
                        => get_jsonpath(Cur', r, json_path[c]) = data[c]
              /\ AtPersist.dirty[r] = dirty[r]]_vars

\* The resources registered under r, at any depth.
RECURSIVE descendants(_, _)
descendants(res, r) ==
    LET kids == Range(res[r])
    IN kids \cup UNION {descendants(res, c) : c \in kids}

\* C30: for an attached resource r, r.save(force) proceeds exactly when r is
\* dirty or force holds; with r clean and force false it saves no child,
\* runs no persistence action and changes nothing; with force true it runs
\* the persistence action of r and of every registered, non-deleted
\* descendant, dirty or not, and leaves r and those descendants clean.
C30_SaveProceedsIffDirtyOrForce ==
    [][(last'.op = "save" /\ ~IsFloatingFile(Cur, last'.r))
        => LET r == last'.r
               force == last'.force
               log == last'.log
               below == {d \in descendants(resources, r) : ~deleted[d]}
           IN /\ (<<"save", r>> \in Range(log)) <=> (dirty[r] \/ force)
              /\ (~dirty[r] /\ ~force)
                    => (log = <<>> /\ last'.raised = "none" /\ UNCHANGED ProgramVars)
              /\ force
                    => /\ last'.raised = "none"
                       /\ \A d \in {r} \cup below :
                              <<"_save", d>> \in Range(log) /\ ~dirty'[d]]_vars

\* C31: when s.save() runs the persistence action of a non-deleted
\* sub-resource s whose path differs from its original path, afterwards the
\* parent holds s.data at the path and nothing at the old original path, and
\* the original path of s is its path; when the two paths are equal the
\* parent holds s.data at the path.
C31_SaveRelocates ==
    [][(/\ last'.op = "save" /\ kind[last'.r] # "file" /\ ~deleted[last'.r]
        /\ last'.raised = "none" /\ <<"_save", last'.r>> \in Range(last'.log))
        => LET s == last'.r
               par == parent[s]
           IN /\ get_jsonpath(Cur', par, json_path[s]) = data[s]
              /\ json_path[s] # original_json_path[s]
                    => /\ ~jsonpath_exists(Cur', par, original_json_path[s])
                       /\ original_json_path'[s] = json_path'[s]]_vars

\* The keys under which the document of s's parent holds s's data.
Addresses(S, s) ==
    LET c == get_jsonpath(S, S.parent[s], ChildJsonpath(S.kind[S.parent[s]]))
    IN IF ~IsRef(c) THEN {}
       ELSE {e[1] : e \in {e \in Range(S.heap[c[2]]) : e[2] = S.data[s]}}

\* No two registered children of s's parent have the same path.
DistinctPaths(S, s) ==
    \A c \in Range(S.resources[S.parent[s]]) \ {s} : S.json_path[c] # S.json_path[s]

\* C32: after renames of sub-resources, each followed by a save of the
\* enclosing file, the parent's document holds the data of every registered,
\* non-deleted sub-resource (whose path no sibling shares) at exactly one
\* address, its current path, and at none of its earlier paths.
C32_RenameRelocates ==
    [][(last'.op = "save_file" /\ last'.raised = "none")
        => \A s \in SubRes :
              (Live(Cur', s) /\ DistinctPaths(Cur', s))
                 => Addresses(Cur', s) = {id(Cur', s)}]_vars

\* C33: r.delete() calls delete() on every resource registered under r when
\* the call starts, at any depth, before r's own removal action, and
\* afterwards r and all of them are deleted.
C33_DeleteCascades ==
    [][(last'.op = "delete" /\ last'.raised = "none")
        => LET r == last'.r
               log == last'.log
           IN /\ deleted'[r]
              /\ \A d \in descendants(resources, r) :
                     /\ deleted'[d]
                     /\ Pos(log, <<"delete", d>>) > 0
                     /\ Pos(log, <<"delete", d>>) < Pos(log, <<"_delete", r>>)]_vars

\* C34: in every reachable state each non-deleted sub-resource occurs
\* exactly once in the registered-children list of its current parent and
\* in no other resource's registered-children list.
C34_RegisteredExactlyOnce ==
    \A s \in SubRes :
        ~deleted[s]
           => /\ Count(resources[parent[s]], s) = 1
              /\ \A r \in AllRes \ {parent[s]} : s \notin Range(resources[r])

\* C35: a collection that was computed stays computed; an access to it
\* changes nothing (no resource is constructed or registered, the list is
\* the one computed before); its list changes only by add_<kind> on its
\* owner appending one element, so a delete() leaves its length unchanged.
C35_CollectionComputedOnce ==
    [][/\ pack_cache.set
            => /\ pack_cache'.set
               /\ last'.op = "pack_collection"
                     => (UNCHANGED ProgramVars /\ last'.lst = pack_cache.list)
               /\ pack_cache'.list # pack_cache.list
                     => /\ last'.op = "pack_add"
                        /\ Len(pack_cache'.list) = Len(pack_cache.list) + 1
                        /\ SubSeq(pack_cache'.list, 1, Len(pack_cache.list)) = pack_cache.list
       /\ \A r \in AllRes :
             cache[r].set
                => /\ cache'[r].set
                   /\ (last'.op = "collection" /\ last'.r = r) => UNCHANGED ProgramVars
                   /\ cache'[r].list # cache[r].list
                         => /\ last'.op = "add" /\ last'.r = r
                            /\ Len(cache'[r].list) = Len(cache[r].list) + 1
                            /\ SubSeq(cache'[r].list, 1, Len(cache[r].list)) = cache[r].list]_vars

\* A group was deleted and its file's collection was read again: the read
\* changed nothing and the list still has the deleted group.
C35_Witness ==
    /\ last.op = "collection" /\ last.before.op = "delete"
    /\ kind[last.r] = "file" /\ cache[last.r].set
    /\ \E i \in DOMAIN cache[last.r].list :
          /\ cache[last.r].list[i] = last.before.r
          /\ deleted[last.before.r]

\* The values a container holds.
Values(c) ==
    IF c.cls = "dict" THEN {e[2] : e \in Range(c.items)} ELSE Range(c.items)

\* C36: after any construction from raw data, item assignment, append and
\* extend, every dict or list that a Notify Container holds is itself a
\* Notify Container with the same owner.
C36_NestedAreNotify ==
    \A c \in Containers :
        \A v \in Values(notify[c]) :
            /\ ~IsRaw(v)
            /\ v[1] = "c" => notify[v[2]].owner = notify[c].owner

\* C37: assigning a value to a key that a NotifyDict does not hold raises
\* nothing, stores the value and leaves the owner dirty, for every value,
\* None included.
C37_AbsentKeyAssignmentDirties ==
    [][(/\ last'.op = "notify_setitem" /\ notify[last'.arg.c].cls = "dict"
        /\ ~Has(notify[last'.arg.c].items, last'.arg.key))
        => LET c == notify[last'.arg.c]
           IN /\ last'.raised = "none"
              /\ notify'[last'.arg.c].items = Append(c.items, <<last'.arg.key, last'.arg.value>>)
              /\ c.owner # 0 => dirty'[c.owner]]_vars

\* C38: a sub-resource is renamed (id or json_path assigned), then deleted,
\* then its file is saved: the written document has no entry for it, neither
\* at the path it had before the rename nor at its new path.
C38_RenamedThenDeletedIsGone ==
    [][(/\ last'.op = "save" /\ last'.raised = "none" /\ kind[last'.r] = "file"
        /\ last.op = "delete" /\ last.raised = "none" /\ kind[last.r] # "file"
        /\ FileOfRes(Cur, last.r) = last'.r
        /\ last.before.op \in {"id", "json_path"} /\ last.before.r = last.r
        /\ last.before.raised = "none")
        => LET s == last.r
               base == AbsPath(Cur, parent[s])
               doc == Persisted(Cur', last'.r).doc
           IN \A p \in {last.before.path0, last.path0} :
                 \A e \in doc : ~IsPrefix(base \o p, e[1])]_vars

\* C39: a delete() on a resource that is already deleted, and a forced
\* save of a deleted file that directly follows a forced save of it, raise
\* nothing and leave the resource tree, the data and the filesystem as they
\* were.
C39_DeletedResourceIsInert ==
    [][(\/ last'.op = "delete" /\ deleted[last'.r]
        \/ /\ last'.op = "save" /\ last'.force /\ kind[last'.r] = "file"
           /\ deleted[last'.r]
           /\ last.op = "save" /\ last.force /\ last.r = last'.r
           /\ last.raised = "none")
        => /\ last'.raised = "none"
           /\ UNCHANGED <<kind, parent, resources, deleted, data, heap, fs>>]_vars

====
